---- MODULE Spec2Model ----
(***************************************************************************)
(* A state-machine model of the fuelcell command tree (type Cmd): the      *)
(* parent/children links, the lazily sorted children list, the cached      *)
(* max-length metrics, the per-command flag sets and the resolver (Find).  *)
(* Strings are tuples of one-character strings, so that prefixes, indexes  *)
(* and byte-wise comparison are computed as the Go code computes them.     *)
(***************************************************************************)
EXTENDS Integers, Sequences, FiniteSets, TLC

\* ------------------------------------------------------------------ bounds
NumCmds == 3
MaxCalls == 2
\* calls on flag sets in one run
MaxFlagCalls == 3
\* tokens of a command line
MaxTokens == 4
\* tokens of a vector given to stripFlags alone
MaxStripTokens == 3

\* The nil pointer (a *Cmd that points nowhere).
Nil == 0

Cmds == 1..NumCmds

VARIABLES
    Use,            \* Cmd.Use, the use-line of every command
    Aliases,        \* Cmd.Aliases
    parent,         \* Cmd.parent
    commands,       \* Cmd.commands
    isSortedCmds,   \* Cmd.isSortedCmds
    maxLength,      \* Cmd.maxLength
    flags,          \* Cmd.flags
    Args,           \* Cmd.Args, the positional validator (Nil: none declared)
    lifecycle,      \* Cmd.lifecycle, the hooks of Lifecycle that are not nil
    Version,        \* Cmd.Version
    DisableFlagParsing, \* Cmd.DisableFlagParsing
    flagErrorFn,    \* Cmd.flagErrorFn (Nil: none declared)
    calledAs,       \* Cmd.calledAs.Name
    ctx,            \* Cmd.ctx (Nil: none)
    EnableCommandSorting, \* the package variable EnableCommandSorting
    SuggestionsMinimumDistance, \* Cmd.SuggestionsMinimumDistance
    CommandLine,    \* pflag.CommandLine, the flag set of the process
    last,           \* the last call made on the tree, with its outcome
    calls           \* the number of calls made so far

vars == <<Use, Aliases, parent, commands, isSortedCmds, maxLength, flags, Args,
          lifecycle, Version, DisableFlagParsing, flagErrorFn,
          calledAs, ctx, EnableCommandSorting, SuggestionsMinimumDistance,
          CommandLine, last, calls>>

\* What the owner of the commands sets before the calls and no call changes
Settings == <<Use, Aliases, Args, lifecycle, Version, DisableFlagParsing, flagErrorFn,
              EnableCommandSorting, SuggestionsMinimumDistance>>

\* ----------------------------------------------------------------- strings
Range(s) == {s[i] : i \in DOMAIN s}

\* The element of a one-element set: The({e(x) : x \in {v}}) is e(v), with v
\* computed once
The(S) == CHOOSE x \in S : TRUE

\* The byte values of the characters the model's strings are made of.
Byte(ch) ==
    CASE ch = " " -> 32
      [] ch = "-" -> 45
      [] ch = "0" -> 48
      [] ch = "8" -> 56
      [] ch = "=" -> 61
      [] ch = "a" -> 97
      [] ch = "e" -> 101
      [] ch = "h" -> 104
      [] ch = "i" -> 105
      [] ch = "k" -> 107
      [] ch = "l" -> 108
      [] ch = "o" -> 111
      [] ch = "p" -> 112
      [] ch = "r" -> 114
      [] ch = "s" -> 115
      [] ch = "t" -> 116
      [] ch = "u" -> 117
      [] ch = "v" -> 118
      [] ch = "x" -> 120
      [] ch = "y" -> 121
      [] ch = "z" -> 122
      [] OTHER -> 127

\* Go's s < t on strings: byte-wise lexicographic order.
StrLess(s, t) ==
    \E k \in 0..Len(s) :
        /\ k <= Len(t)
        /\ \A i \in 1..k : s[i] = t[i]
        /\ \/ k = Len(s) /\ k < Len(t)
           \/ k < Len(s) /\ k < Len(t) /\ Byte(s[k + 1]) < Byte(t[k + 1])

\* strings.HasPrefix
HasPrefix(s, p) == Len(s) >= Len(p) /\ SubSeq(s, 1, Len(p)) = p

\* strings.Contains(s, ch) for a one-character ch
Contains(s, ch) == \E i \in 1..Len(s) : s[i] = ch

\* strings.Index(s, ch) for a one-character ch: 0-based, -1 when absent
Index(s, ch) ==
    IF Contains(s, ch)
    THEN (CHOOSE i \in 1..Len(s) : s[i] = ch /\ \A j \in 1..(i - 1) : s[j] # ch) - 1
    ELSE -1

\* -------------------------------------------------------------- the heap
\* The mutable fields of all commands, as one record handed through the
\* operators that model methods.
Heap == [parent |-> parent, commands |-> commands, isSortedCmds |-> isSortedCmds,
         maxLength |-> maxLength, flags |-> flags, calledAs |-> calledAs,
         ctx |-> ctx, CommandLine |-> CommandLine]

\* Cmd.Name: the first word of the use line
NameOf(use) ==
    LET i == Index(use, " ") IN IF i >= 0 THEN SubSeq(use, 1, i) ELSE use

Name(c) == NameOf(Use[c])

\* Cmd.HasAlias
HasAlias(c, s) == \E i \in 1..Len(Aliases[c]) : Aliases[c][i] = s

\* Cmd.Parent / Cmd.HasParent
Parent(h, c) == h.parent[c]

HasParent(h, c) == h.parent[c] # Nil

\* The ancestors of c, nearest first, as VisitParents meets them; at most n.
RECURSIVE ParentChain(_, _, _)
ParentChain(h, c, n) ==
    IF n = 0 \/ ~HasParent(h, c) THEN <<>>
    ELSE <<Parent(h, c)>> \o ParentChain(h, Parent(h, c), n - 1)

\* Cmd.VisitParents: the parents fn is invoked on, in order
VisitParents(h, c) == ParentChain(h, c, NumCmds)

\* Cmd.Path and Cmd.Root recurse through Parent() until a command has no
\* parent: on a cycle of parent links the recursion never returns and the Go
\* runtime ends the process (stack overflow).
PathDiverges(h, c) == Len(ParentChain(h, c, NumCmds)) = NumCmds

\* Cmd.Root, for a command whose parent chain ends
RECURSIVE Root(_, _)
Root(h, c) == IF HasParent(h, c) THEN Root(h, Parent(h, c)) ELSE c

\* Cmd.Path, for a command whose parent chain ends
RECURSIVE Path(_, _)
Path(h, c) ==
    IF HasParent(h, c) THEN Path(h, Parent(h, c)) \o <<" ">> \o Name(c) ELSE Name(c)

\* ------------------------------------------------------------ max lengths
ZeroLengths == [Use |-> 0, Path |-> 0, Name |-> 0]

\* MaxLengths.Reset has a value receiver: it zeroes the copy it is called on.
Reset(ml) == [Use |-> 0, Path |-> 0, Name |-> 0]

\* Cmd.resetMaxLengths: c.maxLength.Reset() resets a copy, c.maxLength stays.
resetMaxLengths(h, c) ==
    LET copy == Reset(h.maxLength[c]) IN h

Max(a, b) == IF a > b THEN a ELSE b

\* Cmd.updateMaxLengthFrom
updateMaxLengthFrom(h, c, child) ==
    [h EXCEPT !.maxLength[c] =
        [Use  |-> Max(@.Use, Len(Use[child])),
         Path |-> Max(@.Path, Len(Path(h, child))),
         Name |-> Max(@.Name, Len(Name(child)))]]

\* ---------------------------------------------------------- normalization
IsGlobalNormalizationEnabled(h, c) == h.flags[c].GlobalNormalizeFn # Nil

GlobalNormalization(h, c) == h.flags[c].GlobalNormalizeFn

SetGlobalNormalization(h, c, fn) == [h EXCEPT !.flags[c].GlobalNormalizeFn = fn]

\* -------------------------------------------------------------------- Add
IsSelf_never(c, x) == FALSE

\* Add's check cmds[i] == c
IsSelf(c, x) == x = c

AddStep_noParent(h, c, x) ==
    IF PathDiverges(h, x) THEN [h |-> h, status |-> "fatal"]
    ELSE [h |-> [updateMaxLengthFrom(h, c, x) EXCEPT !.commands[c] = Append(@, x),
                                                     !.isSortedCmds[c] = FALSE],
          status |-> "ok"]

AddStep_noAppend(h, c, x) ==
    LET h1 == [h EXCEPT !.parent[x] = c] IN
    IF PathDiverges(h1, x) THEN [h |-> h1, status |-> "fatal"]
    ELSE [h |-> [updateMaxLengthFrom(h1, c, x) EXCEPT !.isSortedCmds[c] = FALSE],
          status |-> "ok"]

AddStep_linkLast(h, c, x) ==
    IF PathDiverges(h, x) THEN [h |-> h, status |-> "fatal"]
    ELSE [h |-> [updateMaxLengthFrom(h, c, x) EXCEPT !.parent[x] = c,
                                                     !.commands[c] = Append(@, x),
                                                     !.isSortedCmds[c] = FALSE],
          status |-> "ok"]

\* One round of Add's loop for a child x that is not c itself: set the parent,
\* update the metrics (child.Path() walks the new parent chain), hand down the
\* normalization function, append, mark unsorted.
AddStep(h, c, x) ==
    LET h1 == [h EXCEPT !.parent[x] = c] IN
    IF PathDiverges(h1, x) THEN [h |-> h1, status |-> "fatal"]
    ELSE LET h2 == updateMaxLengthFrom(h1, c, x)
             h3 == IF IsGlobalNormalizationEnabled(h2, c)
                   THEN SetGlobalNormalization(h2, x, GlobalNormalization(h2, c))
                   ELSE h2
         IN [h |-> [h3 EXCEPT !.commands[c] = Append(@, x),
                              !.isSortedCmds[c] = FALSE],
             status |-> "ok"]

\* Cmd.Add(cmds...): the loop from cmds[i] on; a panic or a crash ends it and
\* keeps what the earlier rounds did.
RECURSIVE AddLoop(_, _, _, _)
AddLoop(h, c, cmds, i) ==
    IF i > Len(cmds) THEN [h |-> h, status |-> "ok"]
    ELSE IF IsSelf(c, cmds[i]) THEN [h |-> h, status |-> "panic"]
    ELSE LET r == AddStep(h, c, cmds[i]) IN
         IF r.status # "ok" THEN r ELSE AddLoop(r.h, c, cmds, i + 1)

\* ----------------------------------------------------------------- Remove
\* Remove's first loop: the parent of every child that is among cmds is
\* cleared; the list of the children kept is built in a local variable.
RECURSIVE RemoveScan(_, _, _, _, _)
RemoveScan(h, c, cmds, i, kept) ==
    IF i > Len(h.commands[c]) THEN [h |-> h, kept |-> kept]
    ELSE LET command == h.commands[c][i] IN
         IF command \in Range(cmds)
         THEN RemoveScan([h EXCEPT !.parent[command] = Nil], c, cmds, i + 1, kept)
         ELSE RemoveScan(h, c, cmds, i + 1, Append(kept, command))

\* Remove's second loop: updateMaxLengthFrom over c.commands
RECURSIVE RemoveRecompute(_, _, _)
RemoveRecompute(h, c, i) ==
    IF i > Len(h.commands[c]) THEN [h |-> h, status |-> "ok"]
    ELSE IF PathDiverges(h, h.commands[c][i]) THEN [h |-> h, status |-> "fatal"]
    ELSE RemoveRecompute(updateMaxLengthFrom(h, c, h.commands[c][i]), c, i + 1)

\* Cmd.Remove(cmds...): the local list of kept children is never stored back
\* into c.commands.
Remove(h, c, cmds) ==
    LET scan == RemoveScan(h, c, cmds, 1, <<>>)
        h1   == resetMaxLengths(scan.h, c)
    IN RemoveRecompute(h1, c, 1)

\* --------------------------------------------------------------- Commands
\* sortByName.Less
Less(a, b) == StrLess(Name(a), Name(b))

IsSortedByName(s) == \A i \in 1..(Len(s) - 1) : ~Less(s[i + 1], s[i])

IsPermutation(s, t) ==
    /\ Len(s) = Len(t)
    /\ \A x \in Range(s) \cup Range(t) :
          Cardinality({i \in 1..Len(s) : s[i] = x}) =
          Cardinality({i \in 1..Len(t) : t[i] = x})

Sorted_asIs(s) == {s}

\* sort.Sort(sortByName(s)): the order of children with equal names is not
\* specified (the sort is not stable), so every sorted arrangement is possible.
Sorted(s) ==
    {t \in [1..Len(s) -> Range(s)] : IsPermutation(s, t) /\ IsSortedByName(t)}

\* Cmd.Commands, with the sorted arrangement t the sort produced
Commands(h, c, t) ==
    IF ~h.isSortedCmds[c]
    THEN [h EXCEPT !.commands[c] = t, !.isSortedCmds[c] = TRUE]
    ELSE h

\* ---------------------------------------------------------------- actions
Store(h) ==
    /\ parent' = h.parent
    /\ commands' = h.commands
    /\ isSortedCmds' = h.isSortedCmds
    /\ maxLength' = h.maxLength
    /\ flags' = h.flags
    /\ calledAs' = h.calledAs
    /\ ctx' = h.ctx
    /\ CommandLine' = h.CommandLine

\* The process is alive (no earlier call ended it) and makes one more call.
Alive == last.status # "fatal" /\ calls < MaxCalls

Count == calls' = calls + 1

Call(op, c, args, status, ret, pre) ==
    [op |-> op, recv |-> c, args |-> args, status |-> status, ret |-> ret, pre |-> pre]

\* The argument lists of Add and Remove: one command, or two
ArgLists == {<<x>> : x \in Cmds} \cup {<<x, y>> : x, y \in Cmds}

AddAct ==
    /\ Alive
    /\ \E c \in Cmds, cmds \in ArgLists :
          LET r == AddLoop(Heap, c, cmds, 1) IN
             /\ Store(r.h)
             /\ last' = Call("Add", c, cmds, r.status, <<>>, commands[c])
    /\ Count
    /\ UNCHANGED Settings

RemoveAct ==
    /\ Alive
    /\ \E c \in Cmds, cmds \in ArgLists :
          LET r == Remove(Heap, c, cmds) IN
             /\ Store(r.h)
             /\ last' = Call("Remove", c, cmds, r.status, <<>>, commands[c])
    /\ Count
    /\ UNCHANGED Settings

CommandsAct ==
    /\ Alive
    /\ \E c \in Cmds :
          \E t \in Sorted(commands[c]) :
             LET h == Commands(Heap, c, t) IN
                /\ Store(h)
                /\ last' = Call("Commands", c, <<>>, "ok", h.commands[c], commands[c])
    /\ Count
    /\ UNCHANGED Settings

\* ------------------------------------------------------------------ Init
NilFlagSet == [alloc |-> FALSE, formal |-> <<>>, normalizeNameFunc |-> Nil,
               SortFlags |-> TRUE, actual |-> <<>>, args |-> <<>>]

NoFlags == [Full |-> NilFlagSet, Global |-> NilFlagSet, ParentsGlobal |-> NilFlagSet,
            GlobalNormalizeFn |-> Nil]

NoCall == Call("new", Nil, <<>>, "ok", <<>>, <<>>)

\* The fields of freshly constructed commands: &Cmd{Use: ...}
FreshHeap ==
    [parent |-> [c \in Cmds |-> Nil],
     commands |-> [c \in Cmds |-> <<>>],
     isSortedCmds |-> [c \in Cmds |-> FALSE],
     maxLength |-> [c \in Cmds |-> ZeroLengths],
     flags |-> [c \in Cmds |-> NoFlags],
     calledAs |-> [c \in Cmds |-> <<>>],
     ctx |-> [c \in Cmds |-> Nil],
     CommandLine |-> [NilFlagSet EXCEPT !.alloc = TRUE]]

\* The program has built the heap h and made no call yet
Built(h) ==
    /\ parent = h.parent
    /\ commands = h.commands
    /\ isSortedCmds = h.isSortedCmds
    /\ maxLength = h.maxLength
    /\ flags = h.flags
    /\ calledAs = h.calledAs
    /\ ctx = h.ctx
    /\ CommandLine = h.CommandLine
    /\ last = NoCall
    /\ calls = 0

Fresh == Built(FreshHeap)

\* The zero values of the fields of Cmd that only execute reads, and the
\* default of EnableCommandSorting
NoLifecycle ==
    /\ lifecycle = [c \in Cmds |-> {}]
    /\ Version = [c \in Cmds |-> <<>>]
    /\ DisableFlagParsing = [c \in Cmds |-> FALSE]
    /\ flagErrorFn = [c \in Cmds |-> Nil]
    /\ EnableCommandSorting = TRUE
    /\ SuggestionsMinimumDistance = [c \in Cmds |-> 0]

\* The use lines of the commands of the tree runs: "zeta", "alpha", "alpha", ...
TreeUses == <<<<"z", "e", "t", "a">>, <<"a", "l", "p", "h", "a">>, <<"a", "l", "p", "h", "a">>>>

InitTree ==
    /\ Use = [c \in Cmds |-> TreeUses[((c - 1) % Len(TreeUses)) + 1]]
    /\ Aliases = [c \in Cmds |-> <<>>]
    /\ Args = [c \in Cmds |-> Nil]
    /\ NoLifecycle
    /\ Fresh

NextTree == AddAct \/ RemoveAct \/ CommandsAct

SpecTree == InitTree /\ [][NextTree]_vars

NextAdd == AddAct \/ CommandsAct

\* The tree under Add and Commands alone
SpecAdd == InitTree /\ [][NextAdd]_vars

\* ------------------------------------------------------------ tree claims
Children(c) == Range(commands[c])

LastIs(op) == last.op = op /\ last.status = "ok"

\* C1: after n.Add(m) for distinct n and m, m.Parent() is n and n.Commands()
\* (whatever arrangement its sort produces) contains m.
C1_AddSetsParentAndChild ==
    LastIs("Add") =>
        \A m \in Range(last.args) :
            /\ Parent(Heap, m) = last.recv
            /\ \A t \in Sorted(commands[last.recv]) :
                  m \in Range(Commands(Heap, last.recv, t).commands[last.recv])

C1_Witness ==
    /\ LastIs("Add") /\ last.recv = 1 /\ last.args = <<2>>
    /\ parent[2] = 1 /\ 2 \in Children(1)

\* C2: an Add on c with c among its arguments never returns normally (it
\* panics when the loop reaches c, and panics at once when c comes first), and
\* in no state is a command its own parent or in its own children list.
C2_SelfAttachNeverSucceeds ==
    /\ (last.op = "Add" /\ last.recv \in Range(last.args)) => last.status # "ok"
    /\ (last.op = "Add" /\ last.args[1] = last.recv) => last.status = "panic"
    /\ \A c \in Cmds : parent[c] # c /\ c \notin Children(c)

C2_Witness ==
    /\ last.op = "Add" /\ last.status = "panic"
    /\ last.args = <<2, 1>> /\ last.recv = 1 /\ parent[2] = 1

\* The parent links from c reach a parentless command.
ReachesRoot(c) == Len(ParentChain(Heap, c, NumCmds)) < NumCmds

\* C3: in every state of a live process (no call crashed it) the tree is
\* acyclic: the parent links from every command end at a parentless command.
C3_Acyclic == last.status # "fatal" => \A c \in Cmds : ReachesRoot(c)

\* a three-level chain, and an Add that tried to close a cycle
C3_Witness ==
    /\ LastIs("Add")
    /\ \E c \in Cmds : Len(ParentChain(Heap, c, NumCmds)) = 2

C3_WitnessCrash == last.op = "Add" /\ last.status = "fatal"

C5_SortedChildren ==
    /\ \A c \in Cmds : isSortedCmds[c] => IsSortedByName(commands[c])
    /\ last.op = "Commands" =>
          /\ IsSortedByName(last.ret)
          /\ IsPermutation(last.pre, last.ret)
          /\ last.ret = commands[last.recv]
          /\ isSortedCmds[last.recv]

\* "zeta" (1) attached before "alpha" (2), read back as alpha, zeta
C5_Witness ==
    /\ last.op = "Commands" /\ last.pre = <<1, 2>> /\ last.ret = <<2, 1>>
    /\ isSortedCmds[last.recv]

\* C6: n.Add(m) followed by n.Remove(m) leaves m.Parent() nil and m absent
\* from n's children list.
C6_AddThenRemove ==
    [][(/\ last.op = "Add" /\ last.status = "ok"
        /\ last'.op = "Remove" /\ last'.recv = last.recv /\ last'.args = last.args)
       => \A m \in Range(last.args) :
             /\ parent'[m] = Nil
             /\ m \notin Range(commands'[last.recv])]_vars

\* ------------------------------------------------------------ flag sets
\* The flag declarations of the program: two declarations of the name "x",
\* a string flag "port" with shorthand "p", a bool flag "all" with
\* shorthand "a" (a bool flag's NoOptDefVal is "true"), a string flag "key";
\* "port" and "key" are annotated as required.
UserFlagTable ==
    << [Name |-> <<"x">>, Shorthand |-> <<>>, NoOptDefVal |-> <<>>,
        DefValue |-> <<"0">>, Type |-> "string", Required |-> FALSE],
       [Name |-> <<"x">>, Shorthand |-> <<>>, NoOptDefVal |-> <<>>,
        DefValue |-> <<"8">>, Type |-> "string", Required |-> FALSE],
       [Name |-> <<"p", "o", "r", "t">>, Shorthand |-> <<"p">>, NoOptDefVal |-> <<>>,
        DefValue |-> <<>>, Type |-> "string", Required |-> TRUE],
       [Name |-> <<"a", "l", "l">>, Shorthand |-> <<"a">>,
        NoOptDefVal |-> <<"t", "r", "u", "e">>, DefValue |-> <<"f", "a", "l", "s", "e">>,
        Type |-> "bool", Required |-> FALSE],
       [Name |-> <<"k", "e", "y">>, Shorthand |-> <<>>, NoOptDefVal |-> <<>>,
        DefValue |-> <<>>, Type |-> "string", Required |-> TRUE] >>

\* The flags InitDefaultHelpFlag and InitDefaultVersionFlag declare:
\* BoolP("help", "h"), BoolP("version", "v") and Bool("version")
DefaultFlagTable ==
    << [Name |-> <<"h", "e", "l", "p">>, Shorthand |-> <<"h">>,
        NoOptDefVal |-> <<"t", "r", "u", "e">>, DefValue |-> <<"f", "a", "l", "s", "e">>,
        Type |-> "bool", Required |-> FALSE],
       [Name |-> <<"v", "e", "r", "s", "i", "o", "n">>, Shorthand |-> <<"v">>,
        NoOptDefVal |-> <<"t", "r", "u", "e">>, DefValue |-> <<"f", "a", "l", "s", "e">>,
        Type |-> "bool", Required |-> FALSE],
       [Name |-> <<"v", "e", "r", "s", "i", "o", "n">>, Shorthand |-> <<>>,
        NoOptDefVal |-> <<"t", "r", "u", "e">>, DefValue |-> <<"f", "a", "l", "s", "e">>,
        Type |-> "bool", Required |-> FALSE] >>

\* The flag the program declares on pflag.CommandLine: flag.String("y", "0", ...)
ProcessFlagTable ==
    << [Name |-> <<"y">>, Shorthand |-> <<>>, NoOptDefVal |-> <<>>,
        DefValue |-> <<"0">>, Type |-> "string", Required |-> FALSE] >>

FlagTable == UserFlagTable \o DefaultFlagTable \o ProcessFlagTable

\* The declarations the program makes itself
FlagIds == DOMAIN UserFlagTable

HelpFlag == Len(UserFlagTable) + 1

VersionFlagP == Len(UserFlagTable) + 2

VersionFlag == Len(UserFlagTable) + 3

ProcessFlag == Len(UserFlagTable) + Len(DefaultFlagTable) + 1

\* The *Flag f was created by a declaration on pflag.CommandLine: every set
\* that holds f holds the pointer to that one flag
IsProcessFlag(f) == f >= ProcessFlag

FlagName(f) == FlagTable[f].Name

\* newFlagSet: flag.NewFlagSet(name, flag.ContinueOnError)
newFlagSet == [NilFlagSet EXCEPT !.alloc = TRUE]

\* A normalization function of the program: "_" becomes "-"
NormalizeWith(fn, name) ==
    [i \in 1..Len(name) |-> IF name[i] = "_" THEN "-" ELSE name[i]]

\* pflag (*FlagSet).normalizeFlagName
normalizeFlagName(fs, name) ==
    IF fs.normalizeNameFunc = Nil THEN name ELSE NormalizeWith(fs.normalizeNameFunc, name)

\* pflag (*FlagSet).Lookup on an allocated set: the flag of that name, or Nil
Lookup(fs, name) ==
    LET m == {i \in 1..Len(fs.formal) : FlagName(fs.formal[i]) = normalizeFlagName(fs, name)}
    IN IF m = {} THEN Nil ELSE fs.formal[CHOOSE i \in m : \A j \in m : i <= j]

\* pflag (*FlagSet).ShorthandLookup on an allocated set, for a one-letter
\* name: the first flag registered under the letter, or Nil
ShorthandLookup(fs, ch) ==
    LET m == {i \in 1..Len(fs.formal) : FlagTable[fs.formal[i]].Shorthand = ch}
    IN IF m = {} THEN Nil ELSE fs.formal[CHOOSE i \in m : \A j \in m : i <= j]

\* pflag (*FlagSet).SetNormalizeFunc: a nil receiver is dereferenced
SetNormalizeFunc(fs, fn) ==
    IF ~fs.alloc THEN [fs |-> fs, status |-> "panic"]
    ELSE [fs |-> [fs EXCEPT !.normalizeNameFunc = fn], status |-> "ok"]

\* pflag (*FlagSet).AddFlag: panics on a nil receiver, on a name already in
\* the set, and (the flag then already added) on a shorthand already taken
AddFlag(fs, f) ==
    IF ~fs.alloc THEN [fs |-> fs, status |-> "panic"]
    ELSE IF Lookup(fs, FlagName(f)) # Nil THEN [fs |-> fs, status |-> "panic"]
    ELSE LET fs1 == [fs EXCEPT !.formal = Append(@, f)] IN
         IF FlagTable[f].Shorthand # <<>> /\ ShorthandLookup(fs, FlagTable[f].Shorthand) # Nil
         THEN [fs |-> fs1, status |-> "panic"]
         ELSE [fs |-> fs1, status |-> "ok"]

\* pflag (*FlagSet).VisitAll: the flags in lexicographical order of name, or
\* in primordial order when SortFlags is false
VisitAll(fs) ==
    IF ~fs.SortFlags THEN fs.formal
    ELSE CHOOSE t \in [1..Len(fs.formal) -> Range(fs.formal)] :
            /\ Range(t) = Range(fs.formal)
            /\ \A i \in 1..(Len(t) - 1) : StrLess(FlagName(t[i]), FlagName(t[i + 1]))

RECURSIVE AddFlagsFrom(_, _, _)
AddFlagsFrom(fs, order, i) ==
    IF i > Len(order) THEN [fs |-> fs, status |-> "ok"]
    ELSE IF ~fs.alloc THEN [fs |-> fs, status |-> "panic"]
    ELSE IF Lookup(fs, FlagName(order[i])) # Nil THEN AddFlagsFrom(fs, order, i + 1)
    ELSE The({ IF r.status # "ok" THEN r ELSE AddFlagsFrom(r.fs, order, i + 1) :
               r \in {AddFlag(fs, order[i])} })

\* pflag (*FlagSet).AddFlagSet: nothing for a nil newSet; else every flag of
\* newSet whose name f lacks is added to f
AddFlagSet(fs, newSet) ==
    IF ~newSet.alloc THEN [fs |-> fs, status |-> "ok"]
    ELSE The({ AddFlagsFrom(fs, order, 1) : order \in {VisitAll(newSet)} })

\* ----------------------------------------------------------- Cmd flags
IsParentsGlobalFlags(F) == ~F.ParentsGlobal.alloc

LoadParentsGlobal(h, c) ==
    [h EXCEPT !.flags[c].ParentsGlobal = [newFlagSet EXCEPT !.SortFlags = FALSE]]

IsGlobalNormalizeFn(F) == F.GlobalNormalizeFn # Nil

IsFull(F) == F.Global.alloc

LoadFullSet(h, c) == [h EXCEPT !.flags[c].Full = newFlagSet]

IsGlobal(F) == F.Global.alloc

LoadGlobalSet(h, c) == [h EXCEPT !.flags[c].Global = newFlagSet]

\* Cmd.Flags: the heap after the call; the set returned is flags[c].Full there
Flags(h, c) == IF ~IsFull(h.flags[c]) THEN LoadFullSet(h, c) ELSE h

\* Cmd.GlobalFlags: the heap after the call; the set returned is flags[c].Global
GlobalFlags(h, c) == IF ~IsGlobal(h.flags[c]) THEN LoadGlobalSet(h, c) ELSE h

\* The body of the VisitParents callback of updateParentGlobalFlags, over
\* the parents ps[i..]
RECURSIVE AddParentsGlobal(_, _, _, _)
AddParentsGlobal(h, c, ps, i) ==
    IF i > Len(ps) THEN [h |-> h, status |-> "ok"]
    ELSE The({
        The({ The({ IF a.status # "ok" THEN [h |-> h2, status |-> a.status]
                    ELSE AddParentsGlobal(h2, c, ps, i + 1) :
                    h2 \in {[h1 EXCEPT !.flags[c].ParentsGlobal = a.fs]} }) :
              a \in {AddFlagSet(h1.flags[c].ParentsGlobal, h1.flags[ps[i]].Global)} }) :
        h1 \in {GlobalFlags(h, ps[i])} })

updateParentGlobalFlags(h, c) ==
    LET h1 == IF ~IsParentsGlobalFlags(h.flags[c]) THEN LoadParentsGlobal(h, c) ELSE h
        n == IF IsGlobalNormalizeFn(h1.flags[c])
             THEN SetNormalizeFunc(h1.flags[c].ParentsGlobal, h1.flags[c].GlobalNormalizeFn)
             ELSE [fs |-> h1.flags[c].ParentsGlobal, status |-> "ok"]
    IN The({
        IF st # "ok" THEN [h |-> h2, status |-> st]
        ELSE IF PathDiverges(h2, c) THEN [h |-> h2, status |-> "fatal"]
        ELSE The({
            The({ The({ IF a.status # "ok" THEN [h |-> h4, status |-> a.status]
                        ELSE AddParentsGlobal(h4, c, ps, 1) :
                        h4 \in {[h3 EXCEPT !.flags[r].Global = a.fs]} }) :
                  a \in {AddFlagSet(h3.flags[r].Global, h3.CommandLine)} }) :
            r \in {Root(h2, c)}, ps \in {VisitParents(h2, c)},
            h3 \in {GlobalFlags(h2, Root(h2, c))} }) :
        h2 \in {[h1 EXCEPT !.flags[c].ParentsGlobal = n.fs]}, st \in {n.status} })

\* Cmd.mergeGlobalFlags: in c.Flags().AddFlagSet(c.GlobalFlags()) the receiver
\* is evaluated before the argument
mergeGlobalFlags(h, c) ==
    The({
        IF u.status # "ok" THEN u
        ELSE The({
            The({ IF a.status # "ok"
                  THEN [h |-> [h1 EXCEPT !.flags[c].Full = a.fs], status |-> a.status]
                  ELSE The({
                      The({ [h |-> [h3 EXCEPT !.flags[c].Full = b.fs], status |-> b.status] :
                            b \in {AddFlagSet(h3.flags[c].Full, h3.flags[c].ParentsGlobal)} }) :
                      h3 \in {Flags([h1 EXCEPT !.flags[c].Full = a.fs], c)} }) :
                  a \in {AddFlagSet(h1.flags[c].Full, h1.flags[c].Global)} }) :
            h1 \in {GlobalFlags(Flags(u.h, c), c)} }) :
        u \in {updateParentGlobalFlags(h, c)} })

\* -------------------------------------------------- runs on flag sets
\* c.Flags().VarP(...): a flag declared on the set Flags() returns
DeclareFlagAct ==
    /\ last.status # "fatal" /\ calls < MaxFlagCalls
    /\ \E c \in Cmds, f \in FlagIds :
          \E h \in {Flags(Heap, c)} :
             \E r \in {AddFlag(h.flags[c].Full, f)} :
                /\ Store([h EXCEPT !.flags[c].Full = r.fs])
                /\ last' = Call("Flags", c, f, r.status, <<>>, <<>>)
    /\ Count
    /\ UNCHANGED Settings

\* c.GlobalFlags().VarP(...): a flag declared on the set GlobalFlags() returns
DeclareGlobalFlagAct ==
    /\ last.status # "fatal" /\ calls < MaxFlagCalls
    /\ \E c \in Cmds, f \in FlagIds :
          \E h \in {GlobalFlags(Heap, c)} :
             \E r \in {AddFlag(h.flags[c].Global, f)} :
                /\ Store([h EXCEPT !.flags[c].Global = r.fs])
                /\ last' = Call("GlobalFlags", c, f, r.status, <<>>, <<>>)
    /\ Count
    /\ UNCHANGED Settings

MergeAct ==
    /\ last.status # "fatal" /\ calls < MaxFlagCalls
    /\ \E c \in Cmds :
          \E r \in {mergeGlobalFlags(Heap, c)} :
             /\ Store(r.h)
             /\ last' = Call("mergeGlobalFlags", c, <<>>, r.status, <<>>, <<>>)
    /\ Count
    /\ UNCHANGED Settings

\* The use lines of a command line tool: "root", "serve", "stop", ...
CliUses == <<<<"r", "o", "o", "t">>, <<"s", "e", "r", "v", "e">>, <<"s", "t", "o", "p">>>>

\* root.Add(serve); serve.Add(stop); ...: every command the child of the one before
RECURSIVE BuildChain(_, _)
BuildChain(h, c) ==
    IF c >= NumCmds THEN h ELSE BuildChain(AddLoop(h, c, <<c + 1>>, 1).h, c + 1)

InitChain ==
    /\ Use = [c \in Cmds |-> CliUses[((c - 1) % Len(CliUses)) + 1]]
    /\ Aliases = [c \in Cmds |-> IF c = 2 THEN <<<<"s">>>> ELSE <<>>]
    /\ Args = [c \in Cmds |-> Nil]
    /\ NoLifecycle
    /\ Built(BuildChain(FreshHeap, 1))

NextFlags == DeclareFlagAct \/ DeclareGlobalFlagAct \/ MergeAct

SpecFlags == InitChain /\ [][NextFlags]_vars

\* ---------------------------------------------------------- flag claims
Ancestors(c) == Range(ParentChain(Heap, c, NumCmds))

Has(fs, name) == fs.alloc /\ Lookup(fs, name) # Nil

FlagNames == {FlagName(f) : f \in FlagIds}

\* C7: once mergeGlobalFlags has composed a node's Full set, Full contains
\* every flag of the node's own Global set and of the Global set of each of
\* its ancestors up to the root (the code keeps no Local set).
C7_FullHasEveryGlobal ==
    last.op = "mergeGlobalFlags" =>
        /\ last.status = "ok"
        /\ \A a \in {last.recv} \cup Ancestors(last.recv) :
              \A name \in FlagNames :
                 Has(flags[a].Global, name) => Has(flags[last.recv].Full, name)

\* The node and its ancestors, nearest first
Levels(c) == <<c>> \o ParentChain(Heap, c, NumCmds)

DeclaringLevels(c, name) ==
    {i \in 1..Len(Levels(c)) : Has(flags[Levels(c)[i]].Global, name)}

\* C8: when a flag name is declared Global at several levels of a node's
\* ancestry (the node included), composing the node's Full set raises no
\* error and Full holds the declaration of the nearest level.
C8_NearestDeclarationWins ==
    last.op = "mergeGlobalFlags" =>
        \A name \in FlagNames :
           LET d == DeclaringLevels(last.recv, name) IN
           Cardinality(d) >= 2 =>
              /\ last.status = "ok"
              /\ Has(flags[last.recv].Full, name)
              /\ Lookup(flags[last.recv].Full, name) =
                 Lookup(flags[Levels(last.recv)[CHOOSE i \in d : \A j \in d : i <= j]].Global, name)

\* ----------------------------------------------------------------- Find
\* hasNoOptDefVal: fs.Lookup dereferences a nil fs
hasNoOptDefVal(name, fs) ==
    IF ~fs.alloc THEN [status |-> "panic", val |-> FALSE]
    ELSE LET f == Lookup(fs, name) IN
         [status |-> "ok", val |-> f # Nil /\ FlagTable[f].NoOptDefVal # <<>>]

\* shortHasNoOptDefVal: fs.ShorthandLookup dereferences a nil fs
shortHasNoOptDefVal(name, fs) ==
    IF Len(name) = 0 THEN [status |-> "ok", val |-> FALSE]
    ELSE IF ~fs.alloc THEN [status |-> "panic", val |-> FALSE]
    ELSE LET f == ShorthandLookup(fs, SubSeq(name, 1, 1)) IN
         [status |-> "ok", val |-> f # Nil /\ FlagTable[f].NoOptDefVal # <<>>]

\* The token s is neither empty nor starts with "-"
IsBareToken(s) == s # <<>> /\ ~HasPrefix(s, <<"-">>)

\* stripLoop with a lone "-" taken for a short flag
RECURSIVE stripLoop_dashIsFlag(_, _, _)
stripLoop_dashIsFlag(args, fs, cmds) ==
    IF Len(args) = 0 THEN [status |-> "ok", commands |-> cmds]
    ELSE IF Head(args) = <<"-">>
    THEN IF Len(args) <= 2 THEN [status |-> "ok", commands |-> cmds]
         ELSE stripLoop_dashIsFlag(Tail(Tail(args)), fs, cmds)
    ELSE IF IsBareToken(Head(args)) THEN stripLoop_dashIsFlag(Tail(args), fs, Append(cmds, Head(args)))
    ELSE stripLoop_dashIsFlag(Tail(args), fs, cmds)

\* The LOOP of stripFlags over the tokens left, with the bare tokens so far
RECURSIVE stripLoop(_, _, _)
stripLoop(args, fs, cmds) ==
    IF Len(args) = 0 THEN [status |-> "ok", commands |-> cmds]
    ELSE LET s == Head(args)
             rest == Tail(args)
             long == IF HasPrefix(s, <<"-", "-">>) /\ ~Contains(s, "=")
                     THEN hasNoOptDefVal(SubSeq(s, 3, Len(s)), fs)
                     ELSE [status |-> "ok", val |-> TRUE]
             short == IF HasPrefix(s, <<"-">>) /\ ~Contains(s, "=") /\ Len(s) = 2
                      THEN shortHasNoOptDefVal(SubSeq(s, 2, Len(s)), fs)
                      ELSE [status |-> "ok", val |-> TRUE]
         IN IF s = <<"-", "-">> THEN [status |-> "ok", commands |-> cmds]
            ELSE IF long.status # "ok" THEN [status |-> long.status, commands |-> cmds]
            ELSE IF long.val /\ short.status # "ok"
                 THEN [status |-> short.status, commands |-> cmds]
            ELSE IF ~long.val \/ ~short.val
                 THEN IF Len(rest) <= 1 THEN [status |-> "ok", commands |-> cmds]
                      ELSE stripLoop(Tail(rest), fs, cmds)
            ELSE IF s # <<>> /\ ~HasPrefix(s, <<"-">>)
                 THEN stripLoop(rest, fs, Append(cmds, s))
            ELSE stripLoop(rest, fs, cmds)

stripFlags(h, args, c) ==
    IF Len(args) = 0 THEN [h |-> h, status |-> "ok", commands |-> args]
    ELSE The({
        IF m.status # "ok" THEN [h |-> m.h, status |-> m.status, commands |-> <<>>]
        ELSE The({
            The({ [h |-> h1, status |-> r.status, commands |-> r.commands] :
                  r \in {stripLoop(args, h1.flags[c].Full, <<>>)} }) :
            h1 \in {Flags(m.h, c)} }) :
        m \in {mergeGlobalFlags(h, c)} })

\* findNext taking the command it matches out of c.commands
findNext_detaching(h, c, next) ==
    LET m == {i \in 1..Len(h.commands[c]) :
                 Name(h.commands[c][i]) = next \/ HasAlias(h.commands[c][i], next)}
    IN IF m = {} THEN [h |-> h, cmd |-> Nil]
       ELSE LET i == CHOOSE k \in m : \A j \in m : k <= j
                cmd == h.commands[c][i]
            IN [h |-> [h EXCEPT !.calledAs[cmd] = next,
                                !.commands[c] = SelectSeq(@, LAMBDA x : x # cmd)],
                cmd |-> cmd]

\* Cmd.findNext: the first command of c.commands named or aliased next
findNext(h, c, next) ==
    LET m == {i \in 1..Len(h.commands[c]) :
                 Name(h.commands[c][i]) = next \/ HasAlias(h.commands[c][i], next)}
    IN IF m = {} THEN [h |-> h, cmd |-> Nil]
       ELSE LET cmd == h.commands[c][CHOOSE i \in m : \A j \in m : i <= j]
            IN [h |-> [h EXCEPT !.calledAs[cmd] = next], cmd |-> cmd]

\* argsMinusFirstX removing the last x of args
argsMinusFirstX_last(args, x) ==
    LET m == {i \in 1..Len(args) : args[i] = x} IN
    IF m = {} THEN args
    ELSE LET i == CHOOSE k \in m : \A j \in m : k >= j
         IN SubSeq(args, 1, i - 1) \o SubSeq(args, i + 1, Len(args))

\* argsMinusFirstX removing nothing
argsMinusFirstX_none(args, x) == args

argsMinusFirstX(args, x) ==
    LET m == {i \in 1..Len(args) : args[i] = x} IN
    IF m = {} THEN args
    ELSE LET i == CHOOSE k \in m : \A j \in m : k <= j
         IN SubSeq(args, 1, i - 1) \o SubSeq(args, i + 1, Len(args))

\* The closure innerFind of Find; levels lists, for each node of the descent,
\* the vector it was given and what stripFlags made of it
RECURSIVE innerFind(_, _, _, _)
innerFind(h, c, innerArgs, levels) ==
    The({
        The({
            IF st.status # "ok"
            THEN [h |-> st.h, status |-> st.status, found |-> c, a |-> innerArgs, levels |-> lv]
            ELSE IF Len(st.commands) = 0
            THEN [h |-> st.h, status |-> "ok", found |-> c, a |-> innerArgs, levels |-> lv]
            ELSE The({
                IF n.cmd # Nil THEN innerFind(n.h, n.cmd, rest, lv)
                ELSE [h |-> n.h, status |-> "ok", found |-> c, a |-> innerArgs, levels |-> lv] :
                n \in {findNext(st.h, c, st.commands[1])},
                rest \in {argsMinusFirstX(innerArgs, st.commands[1])} }) :
            lv \in {Append(levels, [c |-> c, innerArgs |-> innerArgs,
                                    argsWOflags |-> st.commands])} }) :
        st \in {stripFlags(h, innerArgs, c)} })

\* legacyArgs, the default policy for a command without validator: its
\* verdict on the leftover tokens is an error or none
legacyArgs(found, leftovers) == {"nil", "error"}

\* Cmd.Find: the heap after the call and the set of results it can give
Find(h, c, args) ==
    UNION {
        IF r.status # "ok" THEN {[h |-> r.h, status |-> r.status, ret |-> <<>>]}
        ELSE IF Args[r.found] = Nil
        THEN UNION {
            IF st.status # "ok" THEN {[h |-> st.h, status |-> st.status, ret |-> <<>>]}
            ELSE {[h |-> st.h, status |-> "ok",
                   ret |-> [found |-> r.found, a |-> r.a, err |-> e, levels |-> r.levels]] :
                     e \in legacyArgs(r.found, st.commands)} :
            st \in {stripFlags(r.h, r.a, r.found)} }
        ELSE {[h |-> r.h, status |-> "ok",
               ret |-> [found |-> r.found, a |-> r.a, err |-> "nil", levels |-> r.levels]]} :
        r \in {innerFind(h, c, args, <<>>)} }

\* The tokens of the command lines resolved
FindTokens ==
    { <<"s">>, <<"-", "-", "p", "o", "r", "t">>, <<"8", "0", "8", "0">>,
      <<"e", "x", "t", "r", "a">>, <<"s", "t", "o", "p">>, <<"-", "-", "a", "l", "l">> }

ArgVectors == UNION {[1..n -> FindTokens] : n \in 0..MaxTokens}

\* The process resolves one command line, on a command without parent
FindAct ==
    /\ last.status # "fatal" /\ last.op # "Find"
    /\ \E c \in {x \in Cmds : parent[x] = Nil}, args \in ArgVectors :
          \E r \in Find(Heap, c, args) :
             /\ Store(r.h)
             /\ last' = Call("Find", c, args, r.status, r.ret, <<>>)
    /\ Count
    /\ UNCHANGED Settings

\* What the program did with the flag sets of a command before resolving:
\* nothing, or one declaration on Flags() or on GlobalFlags()
Preps == {<<"none", 3>>, <<"Flags", 3>>, <<"Flags", 4>>, <<"GlobalFlags", 3>>}

RECURSIVE Prepare(_, _, _)
Prepare(h, prep, c) ==
    IF c > NumCmds THEN h
    ELSE LET f == prep[c][2]
             h1 == IF prep[c][1] = "Flags"
                   THEN LET g == Flags(h, c) IN
                        [g EXCEPT !.flags[c].Full = AddFlag(g.flags[c].Full, f).fs]
                   ELSE IF prep[c][1] = "Flags2"
                   THEN LET g == Flags(h, c) IN
                        [g EXCEPT !.flags[c].Full =
                            AddFlag(AddFlag(g.flags[c].Full, f).fs, prep[c][3]).fs]
                   ELSE IF prep[c][1] = "GlobalFlags"
                   THEN LET g == GlobalFlags(h, c) IN
                        [g EXCEPT !.flags[c].Global = AddFlag(g.flags[c].Global, f).fs]
                   ELSE h
         IN Prepare(h1, prep, c + 1)

\* The tree root > serve (alias "s") > stop > ...; the "stop" commands declare
\* a positional validator, the others none
InitFind ==
    /\ Use = [c \in Cmds |-> CliUses[((c - 1) % Len(CliUses)) + 1]]
    /\ Aliases = [c \in Cmds |-> IF c = 2 THEN <<<<"s">>>> ELSE <<>>]
    /\ Args = [c \in Cmds |-> IF c % Len(CliUses) = 0 THEN 1 ELSE Nil]
    /\ NoLifecycle
    /\ \E prep \in [Cmds -> Preps] : Built(Prepare(BuildChain(FreshHeap, 1), prep, 1))

NextFind == FindAct

SpecFind == InitFind /\ [][NextFind]_vars

\* ---------------------------------------------------------- Find claims
MatchesChild(c, tok) == \E x \in Range(commands[c]) : Name(x) = tok \/ HasAlias(x, tok)

\* C9: Find on a root whose child "serve" is matched by the alias token "s"
\* (no later token naming a child of serve) returns serve with the alias
\* consumed and the flag tokens kept; for ["s","--port","8080","extra"] the
\* flag-stripped leftovers at serve are ["extra"].
C9_FindByAlias ==
    ( /\ last.op = "Find"
      /\ Len(last.args) > 0
      /\ Head(last.args) = <<"s">>
      /\ <<"s", "t", "o", "p">> \notin Range(Tail(last.args)) ) =>
        /\ last.status = "ok"
        /\ last.ret.found = 2
        /\ last.ret.a = Tail(last.args)
        /\ last.args = << <<"s">>, <<"-", "-", "p", "o", "r", "t">>, <<"8", "0", "8", "0">>,
                          <<"e", "x", "t", "r", "a">> >> =>
              stripLoop(last.ret.a, flags[2].Full, <<>>) =
                 [status |-> "ok", commands |-> << <<"e", "x", "t", "r", "a">> >>]

\* A bare token: not empty and not starting with "-"
IsBare(s) == s # <<>> /\ ~HasPrefix(s, <<"-">>)

\* Find returned its receiver with the vector it was given
ReturnedCurrent ==
    /\ last.status = "ok"
    /\ last.ret.found = last.recv
    /\ last.ret.a = last.args

\* C10: when the vector of a Find holds flag tokens only, so that no bare
\* token remains after flag stripping, or when its first token is bare and
\* matches no direct child by name or alias, Find returns the current node
\* with the vector unchanged; and at each level of the descent of a Find
\* that returns, an empty flag-stripped vector or a first bare token
\* matching no child makes that level the last, its node and its unstripped
\* vector being the result.
C10_UnmatchedReturnsCurrent ==
    last.op = "Find" =>
        /\ (\A i \in 1..Len(last.args) : HasPrefix(last.args[i], <<"-">>)) => ReturnedCurrent
        /\ ( /\ Len(last.args) > 0
             /\ IsBare(last.args[1])
             /\ ~MatchesChild(last.recv, last.args[1]) ) => ReturnedCurrent
        /\ last.status = "ok" =>
              LET L == last.ret.levels IN
              /\ L[1].c = last.recv
              /\ L[1].innerArgs = last.args
              /\ \A i \in 1..Len(L) :
                    /\ L[i].argsWOflags =
                          stripLoop(L[i].innerArgs, flags[L[i].c].Full, <<>>).commands
                    /\ ( \/ L[i].argsWOflags = <<>>
                         \/ ~MatchesChild(L[i].c, L[i].argsWOflags[1]) ) =>
                          /\ i = Len(L)
                          /\ last.ret.found = L[i].c
                          /\ last.ret.a = L[i].innerArgs

\* v without its element at index k
Without(v, k) == [j \in 1..(Len(v) - 1) |-> IF j < k THEN v[j] ELSE v[j + 1]]

\* C11: when a Find that returns descended from one level into the child
\* matched by the token t, the vector passed down is the level's unstripped
\* vector without its first element equal to t, every other element in
\* place, so that a later element equal to t is kept.
C11_FirstOccurrenceRemoved ==
    LastIs("Find") =>
        LET L == last.ret.levels IN
        \A i \in 1..(Len(L) - 1) :
           LET t == L[i].argsWOflags[1]
               v == L[i].innerArgs
           IN /\ L[i + 1].c \in Range(commands[L[i].c])
              /\ Name(L[i + 1].c) = t \/ HasAlias(L[i + 1].c, t)
              /\ \E k \in 1..Len(v) :
                    /\ v[k] = t
                    /\ \A j \in 1..(k - 1) : v[j] # t
                    /\ L[i + 1].innerArgs = Without(v, k)

\* A descent on a token that occurs again, after another token, in the vector
\* passed down
C11_Witness ==
    /\ LastIs("Find")
    /\ Len(last.ret.levels) >= 2
    /\ LET t == last.ret.levels[1].argsWOflags[1]
           w == last.ret.levels[2].innerArgs
       IN /\ Len(w) >= 2
          /\ w[1] # t
          /\ t \in Range(w)

\* ------------------------------------------------- runs on child lookup
\* root.Add(zeta, alpha, ...): every other command a child of the first,
\* attached in the order of their numbers, all aliased "s"
LookupUses == <<<<"r", "o", "o", "t">>, <<"z", "e", "t", "a">>, <<"a", "l", "p", "h", "a">>>>

InitLookup ==
    /\ Use = [c \in Cmds |-> LookupUses[((c - 1) % Len(LookupUses)) + 1]]
    /\ Aliases = [c \in Cmds |-> IF c > 1 THEN <<<<"s">>>> ELSE <<>>]
    /\ Args = [c \in Cmds |-> Nil]
    /\ NoLifecycle
    /\ Built(AddLoop(FreshHeap, 1, [i \in 1..(NumCmds - 1) |-> i + 1], 1).h)

NextLookup == CommandsAct \/ FindAct

SpecLookup == InitLookup /\ [][NextLookup]_vars

\* C12: when several direct children match a token by name or alias, the
\* child Find descends into is the one attached first (here the one of
\* least number), also after Commands() reads that sort the children list.
C12_FirstDeclaredWins ==
    (LastIs("Find") /\ Len(last.ret.levels) >= 2) =>
        LET t == last.ret.levels[1].argsWOflags[1]
            m == {x \in Range(commands[last.recv]) : Name(x) = t \/ HasAlias(x, t)}
        IN \A x \in m : last.ret.levels[2].c <= x

\* ------------------------------------------------ runs on stripFlags
\* The tokens of the vectors stripped: "--", "--port", "--all", "-p", "-a",
\* "-", "" and "x"
StripTokens ==
    { <<"-", "-">>, <<"-", "-", "p", "o", "r", "t">>, <<"-", "-", "a", "l", "l">>,
      <<"-", "p">>, <<"-", "a">>, <<"-">>, <<>>, <<"x">> }

StripVectors == UNION {[1..n -> StripTokens] : n \in 0..MaxStripTokens}

\* One round of flag stripping, stripFlags(args, c), as innerFind makes it
StripAct ==
    /\ last.status # "fatal" /\ last.op # "stripFlags"
    /\ \E c \in Cmds, args \in StripVectors :
          \E r \in {stripFlags(Heap, args, c)} :
             /\ Store(r.h)
             /\ last' = Call("stripFlags", c, args, r.status, r.commands, <<>>)
    /\ Count
    /\ UNCHANGED Settings

NextStrip == StripAct

SpecStrip == InitFind /\ [][NextStrip]_vars

\* C13: in a vector whose only flag-like token is a standalone "--", the
\* "--" stops the scanning and every token after it is in the bare-token
\* result, after the bare tokens before it.
C13_DoubleDashRestIsBare ==
    last.op = "stripFlags" =>
        \A k \in 1..Len(last.args) :
           ( /\ last.args[k] = <<"-", "-">>
             /\ \A j \in 1..Len(last.args) : j # k => IsBare(last.args[j]) ) =>
              /\ last.status = "ok"
              /\ last.ret = Without(last.args, k)

\* -------------------------------------------------- positional validation
\* The validator a command of the program declares in Args: it accepts no
\* positional argument (an error for any other vector)
Validator(v, c, args) == IF Len(args) > 0 THEN "error" ELSE "nil"

\* ValidateArgs that never calls the validator
ValidateArgs_accepting(c, args) == "nil"

\* Cmd.ValidateArgs
ValidateArgs(c, args) == IF Args[c] = Nil THEN "nil" ELSE Validator(Args[c], c, args)

\* C14: a Find whose matched node declares a positional validator returns,
\* as its error, the verdict of that validator on the flag-stripped leftover
\* tokens; a node without validator gets the verdict of the default policy.
C14_FindValidates ==
    LastIs("Find") =>
        LET found == last.ret.found
            leftovers == stripLoop(last.ret.a, flags[found].Full, <<>>).commands
        IN IF Args[found] # Nil
           THEN last.ret.err = Validator(Args[found], found, leftovers)
           ELSE last.ret.err \in legacyArgs(found, leftovers)

\* ------------------------------------------------------- flag parsing
\* The bound on the tokens of an argument vector handed to execute
MaxExecTokens == 2

\* pflag error values, by kind
ErrHelp == "pflag: help requested"

\* strconv.ParseBool, which boolValue.Set and GetBool use
ParseBool(v) ==
    IF v \in {<<"1">>, <<"t">>, <<"t", "r", "u", "e">>} THEN [val |-> TRUE, err |-> "nil"]
    ELSE IF v \in {<<"0">>, <<"f">>, <<"f", "a", "l", "s", "e">>} THEN [val |-> FALSE, err |-> "nil"]
    ELSE [val |-> FALSE, err |-> "invalid syntax"]

\* flag.Changed: the flag was set by a Parse of the set
Changed(fs, f) == \E i \in 1..Len(fs.actual) : fs.actual[i].flag = f

\* flag.Value.String(): the value set, else the default
ValueOf(fs, f) ==
    IF Changed(fs, f)
    THEN fs.actual[CHOOSE i \in 1..Len(fs.actual) : fs.actual[i].flag = f].value
    ELSE FlagTable[f].DefValue

\* pflag (*FlagSet).Set on an allocated set
Set(fs, name, value) ==
    LET f == Lookup(fs, name) IN
    IF f = Nil THEN [fs |-> fs, err |-> "no such flag"]
    ELSE IF FlagTable[f].Type = "bool" /\ ParseBool(value).err # "nil"
    THEN [fs |-> fs, err |-> "invalid argument"]
    ELSE IF Changed(fs, f)
    THEN [fs |-> [fs EXCEPT !.actual =
                     [i \in 1..Len(@) |-> IF @[i].flag = f
                                          THEN [flag |-> f, value |-> value] ELSE @[i]]],
          err |-> "nil"]
    ELSE [fs |-> [fs EXCEPT !.actual = Append(@, [flag |-> f, value |-> value])],
          err |-> "nil"]

\* pflag (*FlagSet).parseLongArg for the token s = "--name[=value]", a the
\* tokens after it: the set after, the tokens left and the error
parseLongArg(fs, s, a) ==
    LET name0 == SubSeq(s, 3, Len(s))
        eq == Index(name0, "=")
        name == IF eq >= 0 THEN SubSeq(name0, 1, eq) ELSE name0
    IN IF Len(name0) = 0 \/ name0[1] = "-" \/ name0[1] = "="
       THEN [fs |-> fs, a |-> a, err |-> "bad flag syntax"]
       ELSE The({
           IF f = Nil
           THEN IF name = <<"h", "e", "l", "p">> THEN [fs |-> fs, a |-> a, err |-> ErrHelp]
                ELSE [fs |-> fs, a |-> a, err |-> "unknown flag"]
           ELSE IF eq >= 0
           THEN The({ [fs |-> r.fs, a |-> a, err |-> r.err] :
                      r \in {Set(fs, FlagName(f), SubSeq(name0, eq + 2, Len(name0)))} })
           ELSE IF FlagTable[f].NoOptDefVal # <<>>
           THEN The({ [fs |-> r.fs, a |-> a, err |-> r.err] :
                      r \in {Set(fs, FlagName(f), FlagTable[f].NoOptDefVal)} })
           ELSE IF Len(a) > 0
           THEN The({ [fs |-> r.fs, a |-> Tail(a), err |-> r.err] :
                      r \in {Set(fs, FlagName(f), Head(a))} })
           ELSE [fs |-> fs, a |-> a, err |-> "flag needs an argument"] :
           f \in {Lookup(fs, name)} })

\* pflag (*FlagSet).parseSingleShortArg for the shorthands left of a token
parseSingleShortArg(fs, shorthands, args) ==
    The({
        IF f = Nil
        THEN IF shorthands[1] = "h"
             THEN [fs |-> fs, outShorts |-> Tail(shorthands), outArgs |-> args, err |-> ErrHelp]
             ELSE [fs |-> fs, outShorts |-> Tail(shorthands), outArgs |-> args,
                   err |-> "unknown shorthand flag"]
        ELSE IF Len(shorthands) > 2 /\ shorthands[2] = "="
        THEN The({ [fs |-> r.fs, outShorts |-> <<>>, outArgs |-> args, err |-> r.err] :
                   r \in {Set(fs, FlagName(f), SubSeq(shorthands, 3, Len(shorthands)))} })
        ELSE IF FlagTable[f].NoOptDefVal # <<>>
        THEN The({ [fs |-> r.fs, outShorts |-> Tail(shorthands), outArgs |-> args, err |-> r.err] :
                   r \in {Set(fs, FlagName(f), FlagTable[f].NoOptDefVal)} })
        ELSE IF Len(shorthands) > 1
        THEN The({ [fs |-> r.fs, outShorts |-> <<>>, outArgs |-> args, err |-> r.err] :
                   r \in {Set(fs, FlagName(f), Tail(shorthands))} })
        ELSE IF Len(args) > 0
        THEN The({ [fs |-> r.fs, outShorts |-> <<>>, outArgs |-> Tail(args), err |-> r.err] :
                   r \in {Set(fs, FlagName(f), Head(args))} })
        ELSE [fs |-> fs, outShorts |-> Tail(shorthands), outArgs |-> args,
              err |-> "flag needs an argument"] :
        f \in {ShorthandLookup(fs, SubSeq(shorthands, 1, 1))} })

\* pflag (*FlagSet).parseShortArg: every shorthand of the token in turn
RECURSIVE parseShortArg(_, _, _)
parseShortArg(fs, shorthands, args) ==
    IF Len(shorthands) = 0 THEN [fs |-> fs, a |-> args, err |-> "nil"]
    ELSE The({
        IF r.err # "nil" THEN [fs |-> r.fs, a |-> r.outArgs, err |-> r.err]
        ELSE parseShortArg(r.fs, r.outShorts, r.outArgs) :
        r \in {parseSingleShortArg(fs, shorthands, args)} })

\* pflag (*FlagSet).parseArgs, interspersed: a token that is no flag is
\* appended to f.args, "--" appends every token after it and stops
RECURSIVE parseArgs(_, _)
parseArgs(fs, args) ==
    IF Len(args) = 0 THEN [fs |-> fs, err |-> "nil"]
    ELSE LET s == Head(args)
             rest == Tail(args)
         IN IF Len(s) = 0 \/ s[1] # "-" \/ Len(s) = 1
            THEN parseArgs([fs EXCEPT !.args = Append(@, s)], rest)
            ELSE IF s = <<"-", "-">>
            THEN [fs |-> [fs EXCEPT !.args = @ \o rest], err |-> "nil"]
            ELSE The({
                IF r.err # "nil" THEN [fs |-> r.fs, err |-> r.err]
                ELSE parseArgs(r.fs, r.a) :
                r \in {IF s[2] = "-" THEN parseLongArg(fs, s, rest)
                       ELSE parseShortArg(fs, Tail(s), rest)} })

\* pflag (*FlagSet).Parse with ContinueOnError: a nil receiver is dereferenced
Parse(fs, arguments) ==
    IF ~fs.alloc THEN [fs |-> fs, status |-> "panic", err |-> "nil"]
    ELSE IF Len(arguments) = 0 THEN [fs |-> fs, status |-> "ok", err |-> "nil"]
    ELSE The({ [fs |-> r.fs, status |-> "ok", err |-> r.err] :
               r \in {parseArgs([fs EXCEPT !.args = <<>>], arguments)} })

\* pflag (*FlagSet).GetBool: a nil receiver is dereferenced by Lookup
GetBool(fs, name) ==
    IF ~fs.alloc THEN [status |-> "panic", val |-> FALSE, err |-> "nil"]
    ELSE LET f == Lookup(fs, name) IN
         IF f = Nil
         THEN [status |-> "ok", val |-> FALSE, err |-> "flag accessed but not defined"]
         ELSE IF FlagTable[f].Type # "bool"
         THEN [status |-> "ok", val |-> FALSE, err |-> "trying to get bool value of flag"]
         ELSE [status |-> "ok", val |-> ParseBool(ValueOf(fs, f)).val,
               err |-> ParseBool(ValueOf(fs, f)).err]

\* ------------------------------------------------------------- execute
\* The fields of Lifecycle, in the order execute calls them
Hooks == <<"GlobalPreRun", "PreRun", "Run", "PostRun", "GlobalPostRun">>

\* The error a hook of the program returns when it fails
HookError(hook) == [GlobalPreRun |-> "GlobalPreRun failed", PreRun |-> "PreRun failed",
                    Run |-> "Run failed", PostRun |-> "PostRun failed",
                    GlobalPostRun |-> "GlobalPostRun failed"][hook]

\* Lifecycle.IsRunnable
IsRunnable(l) == "Run" \in l

\* Cmd.InitDefaultHelpFlag: Lookup and BoolP dereference a nil Flags()
InitDefaultHelpFlag(h, c) ==
    The({
        IF m.status # "ok" THEN m
        ELSE The({
            IF ~h1.flags[c].Full.alloc THEN [h |-> h1, status |-> "panic"]
            ELSE IF Lookup(h1.flags[c].Full, <<"h", "e", "l", "p">>) # Nil
            THEN [h |-> h1, status |-> "ok"]
            ELSE The({
                The({ [h |-> [h2 EXCEPT !.flags[c].Full = r.fs], status |-> r.status] :
                      r \in {AddFlag(h2.flags[c].Full, HelpFlag)} }) :
                h2 \in {Flags(h1, c)} }) :
            h1 \in {Flags(m.h, c)} }) :
        m \in {mergeGlobalFlags(h, c)} })

\* Cmd.InitDefaultVersionFlag
InitDefaultVersionFlag(h, c) ==
    IF Version[c] = <<>> THEN [h |-> h, status |-> "ok"]
    ELSE The({
        IF m.status # "ok" THEN m
        ELSE The({
            IF ~h1.flags[c].Full.alloc THEN [h |-> h1, status |-> "panic"]
            ELSE IF Lookup(h1.flags[c].Full, <<"v", "e", "r", "s", "i", "o", "n">>) # Nil
            THEN [h |-> h1, status |-> "ok"]
            ELSE The({
                IF ~h2.flags[c].Full.alloc THEN [h |-> h2, status |-> "panic"]
                ELSE The({
                    The({ [h |-> [h3 EXCEPT !.flags[c].Full = r.fs], status |-> r.status] :
                          r \in {AddFlag(h3.flags[c].Full,
                                         IF ShorthandLookup(h2.flags[c].Full, <<"v">>) = Nil
                                         THEN VersionFlagP ELSE VersionFlag)} }) :
                    h3 \in {Flags(h2, c)} }) :
                h2 \in {Flags(h1, c)} }) :
            h1 \in {Flags(m.h, c)} }) :
        m \in {mergeGlobalFlags(h, c)} })

\* The set fs as a Parse sees it: the flags it shares with pflag.CommandLine
\* carry the Changed and Value the process has given them
Dereferenced(h, fs) ==
    [fs EXCEPT !.actual =
        SelectSeq(@, LAMBDA e : ~IsProcessFlag(e.flag))
        \o SelectSeq(h.CommandLine.actual, LAMBDA e : e.flag \in Range(fs.formal))]

\* The heap after a Parse has left the set fs: what it assigned to the flags
\* shared with pflag.CommandLine is assigned to those flags
Assigned(h, fs) ==
    [h EXCEPT !.CommandLine.actual =
        SelectSeq(@, LAMBDA e : e.flag \notin Range(fs.formal))
        \o SelectSeq(fs.actual, LAMBDA e : IsProcessFlag(e.flag))]

\* ParseFlags without the test of DisableFlagParsing
ParseFlags_always(h, c, args) ==
    The({
        IF m.status # "ok" THEN [h |-> m.h, status |-> m.status, err |-> "nil"]
        ELSE The({
            IF ~h1.flags[c].Full.alloc THEN [h |-> h1, status |-> "panic", err |-> "nil"]
            ELSE The({ [h |-> Assigned([h1 EXCEPT !.flags[c].Full = r.fs], r.fs),
                        status |-> r.status, err |-> r.err] :
                       r \in {Parse(Dereferenced(h1, h1.flags[c].Full), args)} }) :
            h1 \in {Flags(m.h, c)} }) :
        m \in {mergeGlobalFlags(h, c)} })

\* Cmd.ParseFlags: the assignment to c.Flags().ParseErrorsWhitelist
\* dereferences a nil Flags()
ParseFlags(h, c, args) ==
    IF DisableFlagParsing[c] THEN [h |-> h, status |-> "ok", err |-> "nil"]
    ELSE The({
        IF m.status # "ok" THEN [h |-> m.h, status |-> m.status, err |-> "nil"]
        ELSE The({
            IF ~h1.flags[c].Full.alloc THEN [h |-> h1, status |-> "panic", err |-> "nil"]
            ELSE The({
                The({ [h |-> Assigned([h2 EXCEPT !.flags[c].Full = r.fs], r.fs),
                       status |-> r.status, err |-> r.err] :
                      r \in {Parse(Dereferenced(h2, h2.flags[c].Full), args)} }) :
                h2 \in {Flags(h1, c)} }) :
            h1 \in {Flags(m.h, c)} }) :
        m \in {mergeGlobalFlags(h, c)} })

\* FlagErrorFn without the recursion into the parent
FlagErrorFn_own(h, c) == flagErrorFn[c]

\* Cmd.FlagErrorFn: the function of c, else of the nearest parent that has
\* one, else Nil for the function that returns err as it is
FlagErrorFn(h, c) ==
    LET ps == <<c>> \o ParentChain(h, c, NumCmds)
        m == {i \in 1..Len(ps) : flagErrorFn[ps[i]] # Nil}
    IN IF m = {} THEN Nil ELSE flagErrorFn[ps[CHOOSE i \in m : \A j \in m : i <= j]]

\* The ControlFlagErrorFn functions of the program: 1 rewrites the error, any
\* other suppresses it
ApplyFlagErrorFn(fn, c, err) ==
    IF fn = Nil THEN err ELSE IF fn = 1 THEN "usage error" ELSE "nil"

\* failure.ToSystem: the error wrapped
ToSystem(err) == "system failure"

\* The flags of fs, in the order of VisitAll, that are annotated as required
\* and were not set
Missing(fs) ==
    LET IsMissing(f) == FlagTable[f].Required /\ ~Changed(fs, f) IN
    SelectSeq(VisitAll(fs), IsMissing)

\* validateRequiredFlags stopping at the first missing flag
validateRequiredFlags_first(h, c) ==
    IF DisableFlagParsing[c] THEN [h |-> h, status |-> "ok", err |-> "nil", missing |-> <<>>]
    ELSE The({
        IF ~h1.flags[c].Full.alloc
        THEN [h |-> h1, status |-> "panic", err |-> "nil", missing |-> <<>>]
        ELSE The({
            IF Len(missing) > 0
            THEN [h |-> h1, status |-> "ok", err |-> "required flag(s) not set",
                  missing |-> <<FlagName(missing[1])>>]
            ELSE [h |-> h1, status |-> "ok", err |-> "nil", missing |-> <<>>] :
            missing \in {Missing(h1.flags[c].Full)} }) :
        h1 \in {Flags(h, c)} })

\* Cmd.validateRequiredFlags: missing holds the names the error lists
validateRequiredFlags(h, c) ==
    IF DisableFlagParsing[c] THEN [h |-> h, status |-> "ok", err |-> "nil", missing |-> <<>>]
    ELSE The({
        IF ~h1.flags[c].Full.alloc
        THEN [h |-> h1, status |-> "panic", err |-> "nil", missing |-> <<>>]
        ELSE The({
            IF Len(missing) > 0
            THEN [h |-> h1, status |-> "ok", err |-> "required flag(s) not set",
                  missing |-> [i \in 1..Len(missing) |-> FlagName(missing[i])]]
            ELSE [h |-> h1, status |-> "ok", err |-> "nil", missing |-> <<>>] :
            missing \in {Missing(h1.flags[c].Full)} }) :
        h1 \in {Flags(h, c)} })

\* An invocation execute makes: of a hook of the command p, of the
\* positional validator, of the template renderer, of the required-flag
\* check (args: the names its error lists) or of the flag-error function,
\* with the error it returned
Event(step, p, args, err) == [step |-> step, cmd |-> p, args |-> args, err |-> err]

\* The loop without its break: the last of c and its parents that declares
\* the hook
NearestWith_last(h, c, hook) ==
    LET ps == <<c>> \o ParentChain(h, c, NumCmds)
        m == {i \in 1..Len(ps) : hook \in lifecycle[ps[i]]}
    IN IF m = {} THEN Nil ELSE ps[CHOOSE i \in m : \A j \in m : i >= j]

\* The loop for p := c; p != nil; p = p.Parent(): the first of c and its
\* parents that declares the hook, or Nil
NearestWith(h, c, hook) ==
    LET ps == <<c>> \o ParentChain(h, c, NumCmds)
        m == {i \in 1..Len(ps) : hook \in lifecycle[ps[i]]}
    IN IF m = {} THEN Nil ELSE ps[CHOOSE i \in m : \A j \in m : i <= j]

\* The result of execute: the error returned and the invocations made
Returned(h, status, err, trace) ==
    [h |-> h, status |-> status, ret |-> [err |-> err, trace |-> trace]]

\* The trace after one more invocation
Invoke(trace, step, p, args, err) == Append(trace, Event(step, p, args, err))

\* A hook whose error execute wraps
CallHook_wrapped(h, hook, p, argWoFlags, trace, rest) ==
    {Returned(h, "ok", ToSystem(HookError(hook)),
              Invoke(trace, hook, p, argWoFlags, HookError(hook)))}
    \cup rest

\* if err := hook(c, argWoFlags); err != nil { return err }: the hook of
\* the command p fails, and execute returns its error, or it succeeds, and
\* execute goes on to the outcomes rest
CallHook(h, hook, p, argWoFlags, trace, rest) ==
    {Returned(h, "ok", HookError(hook),
              Invoke(trace, hook, p, argWoFlags, HookError(hook)))}
    \cup rest

\* execute, lines 348-357: the GlobalPostRun of the nearest command that has one
execGlobalPostRun(h, c, argWoFlags, trace) ==
    IF NearestWith(h, c, "GlobalPostRun") = Nil THEN {Returned(h, "ok", "nil", trace)}
    ELSE CallHook(h, "GlobalPostRun", NearestWith(h, c, "GlobalPostRun"), argWoFlags, trace,
                  {Returned(h, "ok", "nil",
                            Invoke(trace, "GlobalPostRun", NearestWith(h, c, "GlobalPostRun"),
                                   argWoFlags, "nil"))})

\* execute, lines 342-346: PostRun
execPostRun(h, c, argWoFlags, trace) ==
    IF "PostRun" \notin lifecycle[c] THEN execGlobalPostRun(h, c, argWoFlags, trace)
    ELSE CallHook(h, "PostRun", c, argWoFlags, trace,
                  execGlobalPostRun(h, c, argWoFlags,
                                    Invoke(trace, "PostRun", c, argWoFlags, "nil")))

\* execute, lines 338-340: Run
execRun(h, c, argWoFlags, trace) ==
    IF "Run" \notin lifecycle[c] THEN execPostRun(h, c, argWoFlags, trace)
    ELSE CallHook(h, "Run", c, argWoFlags, trace,
                  execPostRun(h, c, argWoFlags, Invoke(trace, "Run", c, argWoFlags, "nil")))

\* execute without the required-flag check
execRequired_skipped(h, c, argWoFlags, trace) == execRun(h, c, argWoFlags, trace)

\* execute, lines 334-336: validateRequiredFlags
execRequired(h, c, argWoFlags, trace) ==
    UNION {
        UNION { IF v.status # "ok" \/ v.err # "nil"
                THEN {Returned(v.h, v.status, v.err, t)}
                ELSE execRun(v.h, c, argWoFlags, t) :
                t \in {Append(trace, Event("validateRequiredFlags", c, v.missing, v.err))} } :
        v \in {validateRequiredFlags(h, c)} }

\* execute calling PreRun without the nil check
execPreRun_unchecked(h, c, argWoFlags, trace) ==
    CallHook(h, "PreRun", c, argWoFlags, trace,
             execRequired(h, c, argWoFlags, Invoke(trace, "PreRun", c, argWoFlags, "nil")))

\* execute, lines 328-332: PreRun
execPreRun(h, c, argWoFlags, trace) ==
    IF "PreRun" \notin lifecycle[c] THEN execRequired(h, c, argWoFlags, trace)
    ELSE CallHook(h, "PreRun", c, argWoFlags, trace,
                  execRequired(h, c, argWoFlags,
                               Invoke(trace, "PreRun", c, argWoFlags, "nil")))

\* execute, lines 317-326: the GlobalPreRun of the nearest command that has one
execGlobalPreRun(h, c, argWoFlags, trace) ==
    IF NearestWith(h, c, "GlobalPreRun") = Nil THEN execPreRun(h, c, argWoFlags, trace)
    ELSE CallHook(h, "GlobalPreRun", NearestWith(h, c, "GlobalPreRun"), argWoFlags, trace,
                  execPreRun(h, c, argWoFlags,
                             Invoke(trace, "GlobalPreRun", NearestWith(h, c, "GlobalPreRun"),
                                    argWoFlags, "nil")))

\* The errors tpl returns for the version template: none, or the error of
\* the writer streams.Out()
TplErrors == {"nil", "write failed"}

\* execute, lines 305-315: preRun runs the initializers of the process (none
\* here), then the positional arguments are validated; Args() dereferences a
\* nil Flags()
execValidate(h, c, a, trace) ==
    UNION {
        IF ~h1.flags[c].Full.alloc THEN {Returned(h1, "panic", "nil", trace)}
        ELSE UNION {
            UNION {
                IF ValidateArgs(c, argWoFlags) # "nil"
                THEN {Returned(h1, "ok", ValidateArgs(c, argWoFlags), t)}
                ELSE execGlobalPreRun(h1, c, argWoFlags, t) :
                t \in {IF Args[c] = Nil THEN trace
                        ELSE Append(trace, Event("Args", c, argWoFlags,
                                                 ValidateArgs(c, argWoFlags)))} } :
            argWoFlags \in {IF DisableFlagParsing[c] THEN a ELSE h1.flags[c].Full.args} } :
        h1 \in {Flags(h, c)} }

\* execute without the check of IsRunnable
execRunnable_unchecked(h, c, a, trace) == execValidate(h, c, a, trace)

\* execute, lines 300-304: a command that is not runnable wants help
execRunnable(h, c, a, trace) ==
    IF ~IsRunnable(lifecycle[c]) THEN {Returned(h, "ok", ErrHelp, trace)}
    ELSE execValidate(h, c, a, trace)

\* execute without the version block
execVersion_skipped(h, c, a, trace) == execRunnable(h, c, a, trace)

\* execute, lines 284-298: the version flag of a command that has a Version
execVersion(h, c, a, trace) ==
    IF Version[c] = <<>> THEN execRunnable(h, c, a, trace)
    ELSE UNION {
        UNION {
            IF versionValue.status # "ok" THEN {Returned(h1, versionValue.status, "nil", trace)}
            ELSE IF versionValue.err # "nil"
            THEN {Returned(h1, "ok", ToSystem(versionValue.err), trace)}
            ELSE IF versionValue.val
            THEN {Returned(h1, "ok", err, Append(trace, Event("tpl", c, <<>>, err))) :
                  err \in TplErrors}
            ELSE execRunnable(h1, c, a, trace) :
            versionValue \in {GetBool(h1.flags[c].Full, <<"v", "e", "r", "s", "i", "o", "n">>)} } :
        h1 \in {Flags(h, c)} }

\* execute without the check of the help flag
execHelp_ignored(h, c, a, trace) == execVersion(h, c, a, trace)

\* execute, lines 271-282: the help flag
execHelp(h, c, a, trace) ==
    UNION {
        UNION {
            IF helpValue.status # "ok" THEN {Returned(h1, helpValue.status, "nil", trace)}
            ELSE IF helpValue.err # "nil"
            THEN {Returned(h1, "ok", ToSystem(helpValue.err), trace)}
            ELSE IF helpValue.val THEN {Returned(h1, "ok", ErrHelp, trace)}
            ELSE execVersion(h1, c, a, trace) :
            helpValue \in {GetBool(h1.flags[c].Full, <<"h", "e", "l", "p">>)} } :
        h1 \in {Flags(h, c)} }

\* Cmd.execute on a command c that is not nil: every outcome, with the heap
\* it leaves, the error returned and the invocations made on the way
execute(h, c, a) ==
    UNION {
        IF i.status # "ok" THEN {Returned(i.h, i.status, "nil", <<>>)}
        ELSE UNION {
            IF v.status # "ok" THEN {Returned(v.h, v.status, "nil", <<>>)}
            ELSE UNION {
                IF f.status # "ok" THEN {Returned(f.h, f.status, "nil", <<>>)}
                ELSE IF f.err # "nil"
                THEN {Returned(f.h, "ok", ApplyFlagErrorFn(FlagErrorFn(f.h, c), c, f.err),
                               <<Event("FlagErrorFn", c, <<>>,
                                       ApplyFlagErrorFn(FlagErrorFn(f.h, c), c, f.err))>>)}
                ELSE execHelp(f.h, c, a, <<>>) :
                f \in {ParseFlags(v.h, c, a)} } :
            v \in {InitDefaultVersionFlag(i.h, c)} } :
        i \in {InitDefaultHelpFlag(h, c)} }

\* The tokens of the argument vectors of the execute runs
ExecTokens == {<<"-", "h">>, <<"-", "-", "v", "e", "r", "s", "i", "o", "n">>,
               <<"e", "x", "t", "r", "a">>, <<"-", "-", "k", "e", "y">>,
               <<"-", "-", "a", "l", "l">>}

ExecVectors == UNION { [1..n -> ExecTokens] : n \in 0..MaxExecTokens }

\* One call of execute in a run
ExecuteAct ==
    /\ last.status # "fatal" /\ last.op # "execute"
    /\ \E c \in Cmds, a \in ExecVectors :
          \E r \in execute(Heap, c, a) :
             /\ Store(r.h)
             /\ last' = Call("execute", c, a, r.status, r.ret, <<>>)
    /\ Count
    /\ UNCHANGED Settings

\* The hooks a command of the program declares: none, Run alone, every hook,
\* every hook but Run
HookSets == {{}, {"Run"}, Range(Hooks), Range(Hooks) \ {"Run"}}

\* What the program did with the flag sets of its commands before execute:
\* nothing, or one declaration on Flags() or on GlobalFlags(), or two on
\* Flags()
ExecPreps == {<<"none", 5>>, <<"Flags", 5>>, <<"Flags", VersionFlag>>, <<"GlobalFlags", 4>>,
              <<"Flags2", 3, 5>>}

\* The root is 1, the leaf 3, every command between them 2
Group(c) == IF c = 1 THEN 1 ELSE IF c = NumCmds THEN 3 ELSE 2

\* The tree root > serve > stop > ...; the "stop" commands declare a
\* positional validator, "serve" a flag-error function, and one of root and
\* "serve" has no Version; the commands between root and leaf declare the
\* same hooks; every command was prepared the same way
InitExec ==
    /\ Use = [c \in Cmds |-> CliUses[((c - 1) % Len(CliUses)) + 1]]
    /\ Aliases = [c \in Cmds |-> <<>>]
    /\ Args = [c \in Cmds |-> IF c % Len(CliUses) = 0 THEN 1 ELSE Nil]
    /\ \E g \in [1..3 -> HookSets] : lifecycle = [c \in Cmds |-> g[Group(c)]]
    /\ \E k \in 1..2 : Version = [c \in Cmds |-> IF c = k THEN <<>> ELSE <<"1">>]
    /\ DisableFlagParsing \in {[c \in Cmds |-> FALSE], [c \in Cmds |-> TRUE]}
    /\ flagErrorFn = [c \in Cmds |-> IF c = 2 THEN 1 ELSE Nil]
    /\ EnableCommandSorting = TRUE
    /\ SuggestionsMinimumDistance = [c \in Cmds |-> 0]
    /\ \E prep \in ExecPreps :
          Built(Prepare(BuildChain(FreshHeap, 1), [c \in Cmds |-> prep], 1))

NextExec == ExecuteAct

SpecExec == InitExec /\ [][NextExec]_vars

\* ------------------------------------------------------ execute claims
IsHookEvent(e) == e.step \in Range(Hooks)

\* The hooks the last execute invoked, in the order of invocation
Fired == SelectSeq(last.ret.trace, IsHookEvent)

Steps == {last.ret.trace[i].step : i \in 1..Len(last.ret.trace)}

\* The command that declares the hook for c: c itself, and for the two
\* global hooks the first of c, its parent, ... that declares it; else Nil
Declarer(c, hook) ==
    IF hook \in lifecycle[c] THEN c
    ELSE IF hook \in {"GlobalPreRun", "GlobalPostRun"}
            /\ \E p \in Ancestors(c) : hook \in lifecycle[p]
    THEN CHOOSE p \in Ancestors(c) :
            /\ hook \in lifecycle[p]
            /\ \A q \in Ancestors(c) : hook \in lifecycle[q] => q \in {p} \cup Ancestors(p)
    ELSE Nil

\* The declared hooks of c in the order global-pre, pre, run, post,
\* global-post, from the hook i on, each with the arguments args
RECURSIVE DeclaredFrom(_, _, _)
DeclaredFrom(c, args, i) ==
    IF i > Len(Hooks) THEN <<>>
    ELSE (IF Declarer(c, Hooks[i]) = Nil THEN <<>>
          ELSE <<Event(Hooks[i], Declarer(c, Hooks[i]), args, "nil")>>)
         \o DeclaredFrom(c, args, i + 1)

\* What execute hands to the validator and the hooks: the tokens of a that
\* the parse left as positional arguments
Positional(c, a) == IF DisableFlagParsing[c] THEN a ELSE flags[c].Full.args

\* C15: an execute of a runnable command in which no step fails (it returns
\* no error) and that does not stop at the version flag invokes exactly the
\* declared hooks, once each, in the order global-pre, pre, run, post,
\* global-post; no hook that is not declared is invoked.
C15_HooksInOrder ==
    (LastIs("execute") /\ IsRunnable(lifecycle[last.recv]) /\ last.ret.err = "nil") =>
        IF "tpl" \in Steps THEN Fired = <<>>
        ELSE Fired = DeclaredFrom(last.recv, Positional(last.recv, last.args), 1)

C15_Witness ==
    /\ LastIs("execute") /\ last.ret.err = "nil"
    /\ Len(Fired) = Len(Hooks)
    /\ Len(last.args) > 0

\* C16: when a hook returns an error, execute returns that very error and
\* the hook is the last invocation execute made.
C16_HookErrorEndsExecute ==
    LastIs("execute") =>
        \A i \in 1..Len(last.ret.trace) :
           (IsHookEvent(last.ret.trace[i]) /\ last.ret.trace[i].err # "nil") =>
              /\ last.ret.err = last.ret.trace[i].err
              /\ i = Len(last.ret.trace)

C16_Witness ==
    /\ LastIs("execute")
    /\ Len(Fired) >= 2
    /\ Fired[Len(Fired)].step = "PreRun"
    /\ last.ret.err = HookError("PreRun")
    /\ lifecycle[last.recv] = Range(Hooks)

\* The flag name has the value true in the Full set of the command c
IsSet(c, name) ==
    /\ flags[c].Full.alloc
    /\ GetBool(flags[c].Full, name).err = "nil"
    /\ GetBool(flags[c].Full, name).val

\* The last execute parsed its flags without error
Parsed ==
    /\ LastIs("execute")
    /\ ~DisableFlagParsing[last.recv]
    /\ "FlagErrorFn" \notin Steps

\* C17: when the flags parsed and the help flag is set, execute returns
\* flag.ErrHelp and has invoked nothing: no version rendering, no positional
\* validation, no required-flag check, no hook.
C17_HelpShortCircuits ==
    (Parsed /\ IsSet(last.recv, <<"h", "e", "l", "p">>)) =>
        /\ last.ret.err = ErrHelp
        /\ last.ret.trace = <<>>

C17_Witness ==
    /\ Parsed /\ IsSet(last.recv, <<"h", "e", "l", "p">>)
    /\ IsSet(last.recv, <<"v", "e", "r", "s", "i", "o", "n">>)
    /\ Version[last.recv] # <<>>
    /\ lifecycle[last.recv] = Range(Hooks)
    /\ Args[last.recv] # Nil
    /\ last.ret.err = ErrHelp

\* The last execute rendered the version and did nothing else; it returned
\* what the rendering returned
RenderedOnly ==
    /\ Len(last.ret.trace) = 1
    /\ last.ret.trace[1].step = "tpl"
    /\ last.ret.err = last.ret.trace[1].err

VersionRequested ==
    /\ Parsed
    /\ IsSet(last.recv, <<"v", "e", "r", "s", "i", "o", "n">>)
    /\ ~IsSet(last.recv, <<"h", "e", "l", "p">>)

\* C18: when a version flag exists and is set and the help flag is not set,
\* execute renders the version text and returns the error of the rendering
\* (none when it succeeds); neither validation nor a hook runs.
C18_VersionShortCircuits == VersionRequested => RenderedOnly

\* C18, amended: the same of a command that declares a version string.
C18_VersionOfVersionedCmd ==
    (VersionRequested /\ Version[last.recv] # <<>>) => RenderedOnly

C18_Witness ==
    /\ VersionRequested /\ Version[last.recv] # <<>>
    /\ lifecycle[last.recv] = Range(Hooks)
    /\ Args[last.recv] # Nil
    /\ last.ret.err = "write failed"

\* C19: an execute on a command without Run returns flag.ErrHelp and
\* invokes no hook, whatever other hooks are declared.
C19_NotRunnableWantsHelp ==
    (last.op = "execute" /\ ~IsRunnable(lifecycle[last.recv])) =>
        /\ last.status = "ok"
        /\ last.ret.err = ErrHelp
        /\ Fired = <<>>

\* C19, amended: no execute on a command without Run invokes a hook, and
\* one that got past the flag parsing and the version flag returns
\* flag.ErrHelp.
C19_NotRunnableAfterFlags ==
    (last.op = "execute" /\ ~IsRunnable(lifecycle[last.recv])) =>
        /\ Fired = <<>>
        /\ (last.status = "ok" /\ Steps \cap {"FlagErrorFn", "tpl"} = {})
              => last.ret.err = ErrHelp

C19_Witness ==
    /\ LastIs("execute")
    /\ lifecycle[last.recv] = Range(Hooks) \ {"Run"}
    /\ ~IsSet(last.recv, <<"h", "e", "l", "p">>)
    /\ Len(Positional(last.recv, last.args)) > 0
    /\ last.ret.err = ErrHelp

\* The invocations of the hook in the last execute
FiredOf(hook) == SelectSeq(Fired, LAMBDA e : e.step = hook)

\* C20: an execute invokes at most one GlobalPreRun and at most one
\* GlobalPostRun, and the one invoked is that of the nearest command, from
\* the executed one up to the root, that declares it.
C20_NearestGlobalHook ==
    LastIs("execute") =>
        \A hook \in {"GlobalPreRun", "GlobalPostRun"} :
           /\ Len(FiredOf(hook)) <= 1
           /\ Len(FiredOf(hook)) = 1 => FiredOf(hook)[1].cmd = Declarer(last.recv, hook)

C20_Witness ==
    /\ LastIs("execute")
    /\ Len(FiredOf("GlobalPreRun")) = 1 /\ Len(FiredOf("GlobalPostRun")) = 1
    /\ FiredOf("GlobalPreRun")[1].cmd \notin {last.recv, Root(Heap, last.recv)}
    /\ "GlobalPreRun" \in lifecycle[Root(Heap, last.recv)]

\* ------------------------------------------------- required flag claims
\* The names of the flags of the Full set of c that are annotated as
\* required and were not set
RequiredUnset(c) ==
    IF ~flags[c].Full.alloc THEN {}
    ELSE {FlagName(f) : f \in {g \in Range(flags[c].Full.formal) :
                                  FlagTable[g].Required /\ ~Changed(flags[c].Full, g)}}

\* The last execute ended in the error of validateRequiredFlags, which
\* lists each name of RequiredUnset once and no other name
AbortedListingMissing ==
    LET e == last.ret.trace[Len(last.ret.trace)] IN
    /\ Len(last.ret.trace) > 0
    /\ e.step = "validateRequiredFlags"
    /\ last.ret.err = "required flag(s) not set" /\ e.err = last.ret.err
    /\ Range(e.args) = RequiredUnset(last.recv)
    /\ Len(e.args) = Cardinality(RequiredUnset(last.recv))

\* C21: an execute on a command whose Full set has a required flag that was
\* not set ends in one error that lists every such flag and no other.
C21_RequiredAborts ==
    (LastIs("execute") /\ RequiredUnset(last.recv) # {}) => AbortedListingMissing

\* C21, amended: the same of an execute that parses flags and gets to the
\* required-flag check.
C21_RequiredCheckAborts ==
    (/\ LastIs("execute") /\ RequiredUnset(last.recv) # {}
     /\ ~DisableFlagParsing[last.recv]
     /\ "validateRequiredFlags" \in Steps) => AbortedListingMissing

C21_Witness ==
    /\ LastIs("execute")
    /\ ~DisableFlagParsing[last.recv] /\ "validateRequiredFlags" \in Steps
    /\ Cardinality(RequiredUnset(last.recv)) = 2
    /\ last.ret.err = "required flag(s) not set"

\* ----------------------------------------------------- Execute, ExecuteC
\* context.Background()
Background == 1

\* Cmd.ExecuteC: a nil ctx becomes the background context; a command with a
\* parent hands over to its root; the root returns (nil, nil). Neither Find
\* nor execute is called, so no invocation is made.
RECURSIVE ExecuteC(_, _)
ExecuteC(h, c) ==
    The({
        IF HasParent(h1, c)
        THEN IF PathDiverges(h1, c) THEN Returned(h1, "fatal", "nil", <<>>)
             ELSE ExecuteC(h1, Root(h1, c))
        ELSE Returned(h1, "ok", "nil", <<>>) :
        h1 \in {IF h.ctx[c] = Nil THEN [h EXCEPT !.ctx[c] = Background] ELSE h} })

\* Cmd.Execute: the error of ExecuteC
Execute(h, c) == ExecuteC(h, c)

\* One call of Execute in a run
ExecuteCAct ==
    /\ last.status # "fatal" /\ calls < MaxCalls
    /\ \E c \in Cmds :
          \E r \in {Execute(Heap, c)} :
             /\ Store(r.h)
             /\ last' = Call("Execute", c, <<>>, r.status, r.ret, <<>>)
    /\ Count
    /\ UNCHANGED Settings

NextRun == ExecuteCAct

\* The prepared trees of the execute runs, under Execute
SpecRun == InitExec /\ [][NextRun]_vars

\* C22: an Execute on a command of a tree whose root is runnable, declares
\* no positional validator and has no required flag (the process arguments
\* being empty, the root is the target and its flags and arguments are
\* valid) invokes the Run hook of the root exactly once.
C22_ExecuteRunsTarget ==
    (/\ last.op = "Execute"
     /\ IsRunnable(lifecycle[Root(Heap, last.recv)])
     /\ Args[Root(Heap, last.recv)] = Nil
     /\ RequiredUnset(Root(Heap, last.recv)) = {}) =>
        /\ last.status = "ok"
        /\ Len(FiredOf("Run")) = 1
        /\ FiredOf("Run")[1].cmd = Root(Heap, last.recv)

\* -------------------------------------------------------- normalization
\* The normalization function the program sets
NormalizeFn == 1

\* One call of SetGlobalNormalization in a run
SetGlobalNormalizationAct ==
    /\ Alive
    /\ \E c \in Cmds :
          /\ Store(SetGlobalNormalization(Heap, c, NormalizeFn))
          /\ last' = Call("SetGlobalNormalization", c, <<NormalizeFn>>, "ok", <<>>, <<>>)
    /\ Count
    /\ UNCHANGED Settings

NextNorm == AddAct \/ SetGlobalNormalizationAct

\* Trees built by Add with normalization functions set on the way
SpecNorm == InitTree /\ [][NextNorm]_vars

\* C23: after any Add and SetGlobalNormalization calls that ended normally,
\* every descendant of a command that has a normalization function has
\* that function.
C23_NormalizationPropagates ==
    last.status = "ok" =>
        \A c, d \in Cmds :
           (c \in Ancestors(d) /\ flags[c].GlobalNormalizeFn # Nil) =>
              flags[d].GlobalNormalizeFn = flags[c].GlobalNormalizeFn

\* ------------------------------------------------------------ suggestions
\* strings.ToLower on the letters the runs use
ToLower(s) ==
    [i \in 1..Len(s) |-> CASE s[i] = "A" -> "a" [] s[i] = "S" -> "s" [] s[i] = "T" -> "t"
                           [] OTHER -> s[i]]

\* The column j of the matrix d of ld, d[0][j] .. d[len(s)][j], filled from
\* the row i on; prev is the column j - 1 and tj the byte t[j-1]
RECURSIVE ldColumn(_, _, _, _, _)
ldColumn(s, tj, prev, cur, i) ==
    IF i > Len(s) THEN cur
    ELSE IF s[i] = tj THEN ldColumn(s, tj, prev, Append(cur, prev[i]), i + 1)
    ELSE The({ ldColumn(s, tj, prev, Append(cur, min + 1), i + 1) :
               min \in {The({ The({ IF prev[i] < m2 THEN prev[i] ELSE m2 :
                                    m2 \in {IF prev[i + 1] < m1 THEN prev[i + 1] ELSE m1} }) :
                              m1 \in {cur[i]} })} })

\* The columns of d from the column j on
RECURSIVE ldColumns(_, _, _, _)
ldColumns(s, t, prev, j) ==
    IF j > Len(t) THEN prev[Len(s) + 1]
    ELSE The({ ldColumns(s, t, col, j + 1) : col \in {ldColumn(s, t[j], prev, <<j>>, 1)} })

\* ld with substitutions for free
ld_freeSubstitution(s, t, ignoreCase) ==
    IF Len(s) > Len(t) THEN Len(s) - Len(t) ELSE Len(t) - Len(s)

\* ld: the Levenshtein distance of s and t
ld(s, t, ignoreCase) ==
    IF ignoreCase THEN ldColumns(ToLower(s), ToLower(t), [i \in 1..(Len(s) + 1) |-> i - 1], 1)
    ELSE ldColumns(s, t, [i \in 1..(Len(s) + 1) |-> i - 1], 1)

\* The names and aliases of the children of c, in declaration order
Candidates(h, c) ==
    LET RECURSIVE from(_)
        from(i) == IF i > Len(h.commands[c]) THEN <<>>
                   ELSE <<Name(h.commands[c][i])>> \o Aliases[h.commands[c][i]] \o from(i + 1)
    IN  from(1)

\* The candidates at the distances d .. minimum of typed, nearest first
RECURSIVE ByDistance(_, _, _, _)
ByDistance(typed, candidates, d, minimum) ==
    IF d > minimum THEN <<>>
    ELSE SelectSeq(candidates, LAMBDA n : ld(typed, n, TRUE) = d)
         \o ByDistance(typed, candidates, d + 1, minimum)

\* The suggestions for the unmatched token typed below c
SuggestionsFor(h, c, typed) ==
    IF SuggestionsMinimumDistance[c] <= 0
    THEN [status |-> "error", err |-> "invalid configuration", ret |-> <<>>]
    ELSE [status |-> "ok", err |-> "nil",
          ret |-> ByDistance(typed, Candidates(h, c), 0, SuggestionsMinimumDistance[c])]

\* The tokens the suggestion runs type
TypedTokens ==
    {<<"s", "t", "a", "t">>, <<"S", "T", "A", "T">>, <<"s", "t", "o">>, <<"s", "t", "o", "p">>,
     <<"x">>, <<"s", "t", "a", "t", "s">>}

\* The largest threshold of the suggestion runs
MaxDistance == 3

SuggestionsForAct ==
    /\ Alive
    /\ \E c \in Cmds, typed \in TypedTokens :
          \E r \in {SuggestionsFor(Heap, c, typed)} :
              last' = Call("SuggestionsFor", c, <<typed>>, r.status, r.ret, Candidates(Heap, c))
    /\ Count
    /\ UNCHANGED <<parent, commands, isSortedCmds, maxLength, flags, calledAs, ctx, CommandLine>>
    /\ UNCHANGED Settings

\* "app" with the children "start" (alias "stats") and "stop", declared in
\* either order, and one threshold for every command
InitSuggest ==
    /\ Use = [c \in Cmds |-> CASE c = 1 -> <<"a", "p", "p">>
                               [] c = 2 -> <<"s", "t", "a", "r", "t">>
                               [] OTHER -> <<"s", "t", "o", "p">>]
    /\ Aliases = [c \in Cmds |-> IF c = 2 THEN <<<<"s", "t", "a", "t", "s">>>> ELSE <<>>]
    /\ Args = [c \in Cmds |-> Nil]
    /\ lifecycle = [c \in Cmds |-> {}]
    /\ Version = [c \in Cmds |-> <<>>]
    /\ DisableFlagParsing = [c \in Cmds |-> FALSE]
    /\ flagErrorFn = [c \in Cmds |-> Nil]
    /\ EnableCommandSorting = TRUE
    /\ \E d \in (0 - 1)..MaxDistance : SuggestionsMinimumDistance = [c \in Cmds |-> d]
    /\ \E kids \in {<<2, 3>>, <<3, 2>>, <<2>>} :
          Built([FreshHeap EXCEPT !.parent = [c \in Cmds |-> IF c \in Range(kids) THEN 1 ELSE Nil],
                                  !.commands = [c \in Cmds |-> IF c = 1 THEN kids ELSE <<>>]])

NextSuggest == SuggestionsForAct

SpecSuggest == InitSuggest /\ [][NextSuggest]_vars

\* The distance of the typed token of the last call to its i-th candidate
DistanceTo(i) == ld(last.args[1], last.pre[i], TRUE)

\* The last call returned the candidates within its threshold, nearest first
\* and in declaration order among equals
SuggestsNearest ==
    LET minimum == SuggestionsMinimumDistance[last.recv]
        kept == {i \in DOMAIN last.pre : DistanceTo(i) <= minimum}
    IN  IF minimum <= 0 THEN last.status = "error"
        ELSE /\ last.status = "ok"
             /\ \E f \in [DOMAIN last.ret -> kept] :
                   /\ \A i \in kept : \E k \in DOMAIN last.ret : f[k] = i
                   /\ \A k \in DOMAIN last.ret : last.ret[k] = last.pre[f[k]]
                   /\ \A k, l \in DOMAIN last.ret :
                         k < l => \/ DistanceTo(f[k]) < DistanceTo(f[l])
                                  \/ DistanceTo(f[k]) = DistanceTo(f[l]) /\ f[k] < f[l]

\* "stat" typed against [start, stats, stop] with the threshold 2
StatExample ==
    /\ last.op = "SuggestionsFor"
    /\ last.args = <<<<"s", "t", "a", "t">>>>
    /\ last.pre = <<<<"s", "t", "a", "r", "t">>, <<"s", "t", "a", "t", "s">>, <<"s", "t", "o", "p">>>>
    /\ SuggestionsMinimumDistance[last.recv] = 2

MaxUseLen == 3

\* The bytes of the use lines of the name runs: a letter, a space, a tab
UseBytes == {"a", " ", "\t"}

\* The use lines of at most n bytes
RECURSIVE UseLines(_)
UseLines(n) ==
    IF n = 0 THEN {<<>>}
    ELSE UseLines(n - 1) \cup {Append(u, b) : u \in UseLines(n - 1), b \in UseBytes}

NameAct ==
    /\ Alive
    /\ \E c \in Cmds : last' = Call("Name", c, <<>>, "ok", Name(c), Use[c])
    /\ Count
    /\ UNCHANGED <<parent, commands, isSortedCmds, maxLength, flags, calledAs, ctx, CommandLine>>
    /\ UNCHANGED Settings

\* Unattached commands, the first with any use line
InitName ==
    /\ \E u \in UseLines(MaxUseLen) :
          Use = [c \in Cmds |-> IF c = 1 THEN u ELSE TreeUses[((c - 1) % Len(TreeUses)) + 1]]
    /\ Aliases = [c \in Cmds |-> <<>>]
    /\ Args = [c \in Cmds |-> Nil]
    /\ NoLifecycle
    /\ Fresh

NextName == NameAct

SpecName == InitName /\ [][NextName]_vars

\* unicode.IsSpace on the bytes of the runs
IsSpace(b) == b \in {" ", "\t"}

\* The first whitespace-delimited token of use, empty when it has none
FirstToken(use) ==
    LET starts == {i \in DOMAIN use : ~IsSpace(use[i])}
    IN  IF starts = {} THEN <<>>
        ELSE LET first == CHOOSE i \in starts : \A j \in starts : i <= j
                 ends == {i \in first..Len(use) : i = Len(use) \/ IsSpace(use[i + 1])}
             IN  SubSeq(use, first, CHOOSE i \in ends : \A j \in ends : i <= j)

\* C25: Name() is the first whitespace-delimited token of the use line, for
\* every kind of whitespace and also after leading whitespace, and it is empty
\* only when the use line has no token.
C25_NameIsFirstToken ==
    last.op = "Name" =>
        /\ last.ret = FirstToken(last.pre)
        /\ last.ret = <<>> => \A i \in DOMAIN last.pre : IsSpace(last.pre[i])

\* ------------------------------------------------------------ sorting off
\* The tree runs after the program has set EnableCommandSorting = false
InitUnsorted ==
    /\ Use = [c \in Cmds |-> TreeUses[((c - 1) % Len(TreeUses)) + 1]]
    /\ Aliases = [c \in Cmds |-> <<>>]
    /\ Args = [c \in Cmds |-> Nil]
    /\ lifecycle = [c \in Cmds |-> {}]
    /\ Version = [c \in Cmds |-> <<>>]
    /\ DisableFlagParsing = [c \in Cmds |-> FALSE]
    /\ flagErrorFn = [c \in Cmds |-> Nil]
    /\ EnableCommandSorting = FALSE
    /\ SuggestionsMinimumDistance = [c \in Cmds |-> 0]
    /\ Fresh

SpecUnsorted == InitUnsorted /\ [][NextAdd]_vars

\* C26: with EnableCommandSorting set to false, Commands() does not sort: it
\* returns the children in the order they were attached.
C26_UnsortedKeepsAttachOrder ==
    (~EnableCommandSorting /\ last.op = "Commands") =>
        /\ last.ret = last.pre
        /\ commands[last.recv] = last.pre

\* ------------------------------------------------------------ two trees
\* The argument vectors of the runs on two trees: nothing, or one token
ProcessVectors == {<<>>, <<<<"-", "-", "y", "=", "8">>>>, <<<<"-", "-", "a", "l", "l">>>>,
                   <<<<"e", "x", "t", "r", "a">>>>}

\* One call of execute in a run on two trees
ExecuteTreeAct ==
    /\ Alive
    /\ \E c \in Cmds, a \in ProcessVectors :
          \E r \in execute(Heap, c, a) :
             /\ Store(r.h)
             /\ last' = Call("execute", c, a, r.status, r.ret, <<>>)
    /\ Count
    /\ UNCHANGED Settings

\* Two trees: the command 1 alone, and the chain 2 > 3 > ...; the commands
\* declare the same hooks and were prepared the same way; the program has
\* declared the flag "y" on pflag.CommandLine, or nothing
InitTrees ==
    /\ Use = [c \in Cmds |-> CliUses[((c - 1) % Len(CliUses)) + 1]]
    /\ Aliases = [c \in Cmds |-> <<>>]
    /\ Args = [c \in Cmds |-> Nil]
    /\ \E hs \in HookSets : lifecycle = [c \in Cmds |-> hs]
    /\ Version = [c \in Cmds |-> <<>>]
    /\ DisableFlagParsing = [c \in Cmds |-> FALSE]
    /\ flagErrorFn = [c \in Cmds |-> Nil]
    /\ EnableCommandSorting = TRUE
    /\ SuggestionsMinimumDistance = [c \in Cmds |-> 0]
    /\ \E prep \in {<<"none", 4>>, <<"Flags", 4>>, <<"Flags", 5>>}, declared \in {<<>>, <<ProcessFlag>>} :
          Built(Prepare([FreshHeap EXCEPT
                            !.parent = [c \in Cmds |-> IF c > 2 THEN c - 1 ELSE Nil],
                            !.commands = [c \in Cmds |-> IF c >= 2 /\ c < NumCmds
                                                         THEN <<c + 1>> ELSE <<>>],
                            !.CommandLine.formal = declared],
                        [c \in Cmds |-> prep], 1))

NextTrees == ExecuteTreeAct

SpecTrees == InitTrees /\ [][NextTrees]_vars

\* What a reader of the flag set fs sees: its declarations, and the Changed
\* and the Value of each
Visible(fs) ==
    [i \in DOMAIN fs.formal |->
        LET seen == IF IsProcessFlag(fs.formal[i]) THEN CommandLine ELSE fs
        IN  [flag |-> fs.formal[i], changed |-> Changed(seen, fs.formal[i]),
             value |-> ValueOf(seen, fs.formal[i])]]

\* What is observable of the flags of d
Observable(d) ==
    <<Visible(flags[d].Full), Visible(flags[d].Global), Visible(flags[d].ParentsGlobal)>>

\* C27: trees share no mutable state: an execute on a command of one tree
\* (composing its flag sets and parsing its flags) changes no flag
\* declaration and no flag value observable from a command of another tree.
C27_TreesShareNothing ==
    [][last'.op = "execute" =>
          \A d \in Cmds : Root(Heap, d) # Root(Heap, last'.recv) =>
                             Observable(d)' = Observable(d)]_vars

\* ------------------------------------------------------------ max lengths, again
\* The children c has now: the commands of its list whose parent it is
CurrentChildren(c) == {m \in Children(c) : parent[m] = c}

\* The largest number of ns, 0 when there is none
Largest(ns) == IF ns = {} THEN 0 ELSE CHOOSE n \in ns : \A k \in ns : k <= n

\* C28: after an Add or a Remove on a command each of its cached max-length
\* metrics is the maximum of that length over its current children, and 0
\* when it has none.
C28_MaxLengthsOfChildren ==
    (last.op \in {"Add", "Remove"} /\ last.status = "ok") =>
        /\ maxLength[last.recv].Use = Largest({Len(Use[m]) : m \in CurrentChildren(last.recv)})
        /\ maxLength[last.recv].Path =
              Largest({Len(Path(Heap, m)) : m \in CurrentChildren(last.recv)})
        /\ maxLength[last.recv].Name = Largest({Len(Name(m)) : m \in CurrentChildren(last.recv)})

\* ------------------------------------------------------------ the cache of Full
\* c.Flags(): a read of the set, which is returned
FlagsAct ==
    /\ last.status # "fatal" /\ calls < MaxFlagCalls
    /\ \E c \in Cmds :
          \E h \in {Flags(Heap, c)} :
             /\ Store(h)
             /\ last' = Call("Flags()", c, <<>>, "ok", h.flags[c].Full, flags[c].Full)
    /\ Count
    /\ UNCHANGED Settings

NextCache == DeclareFlagAct \/ DeclareGlobalFlagAct \/ FlagsAct

SpecCache == InitChain /\ [][NextCache]_vars

\* C29: Full is built once and cached: of two consecutive Flags() reads the
\* second returns the set of the first, and a flag registered on the set
\* Flags() returned is present in the set the next Flags() read returns,
\* whether or not GlobalFlags() was accessed before.
C29_FullIsCached ==
    [][last'.op = "Flags()" /\ last'.recv = last.recv =>
          /\ last.op = "Flags()" => last'.ret = last.ret
          /\ last.op = "Flags" =>
                /\ last.status = "ok"
                /\ last'.ret.alloc /\ last.args \in Range(last'.ret.formal)]_vars

\* ------------------------------------------------------------ Full after a move
NextMove == AddAct \/ RemoveAct \/ DeclareGlobalFlagAct \/ MergeAct

\* The chain root > serve > stop > ... under Add, Remove, declarations on
\* GlobalFlags() and mergeGlobalFlags
SpecMove == InitChain /\ [][NextMove]_vars

\* The parent BuildChain gave c
ChainParent(c) == IF c = 1 THEN Nil ELSE c - 1

\* The names of the flags the allocated sets among fss hold
NamesIn(fss) == UNION { {FlagName(fs.formal[i]) : i \in DOMAIN fs.formal} : fs \in fss }

\* C30: after a structural change the next composition of Full reflects the
\* current ancestry only: for a command that was detached or attached under
\* another parent, the Full that mergeGlobalFlags leaves contains the Global
\* flags of its current ancestors and none that only a former ancestor has.
C30_FullOfCurrentAncestry ==
    (last.op = "mergeGlobalFlags" /\ parent[last.recv] # ChainParent(last.recv)) =>
        /\ NamesIn({flags[a].Global : a \in Ancestors(last.recv)})
              \subseteq NamesIn({flags[last.recv].Full})
        /\ NamesIn({flags[last.recv].Full})
              \subseteq NamesIn({flags[a].Global : a \in Ancestors(last.recv) \cup {last.recv}}
                                \cup {CommandLine})

\* ------------------------------------------------------------ the scan of stripFlags
\* The tokens of the vectors scanned: those of StripTokens but "--", and
\* "--port=x"
ScanTokens ==
    (StripTokens \ {<<"-", "-">>}) \cup {<<"-", "-", "p", "o", "r", "t", "=", "x">>}

ScanVectors == UNION {[1..n -> ScanTokens] : n \in 0..MaxStripTokens}

\* One stripFlags(args, c) on a vector without "--"
ScanAct ==
    /\ last.status # "fatal" /\ last.op # "stripFlags"
    /\ \E c \in Cmds, args \in ScanVectors :
          \E r \in {stripFlags(Heap, args, c)} :
             /\ Store(r.h)
             /\ last' = Call("stripFlags", c, args, r.status, r.commands, flags[c].Full)
    /\ Count
    /\ UNCHANGED Settings

\* The tree of InitFind, every command prepared the same way
InitScan ==
    /\ Use = [c \in Cmds |-> CliUses[((c - 1) % Len(CliUses)) + 1]]
    /\ Aliases = [c \in Cmds |-> IF c = 2 THEN <<<<"s">>>> ELSE <<>>]
    /\ Args = [c \in Cmds |-> IF c % Len(CliUses) = 0 THEN 1 ELSE Nil]
    /\ NoLifecycle
    /\ \E prep \in Preps :
          Built(Prepare(BuildChain(FreshHeap, 1), [c \in Cmds |-> prep], 1))

NextScan == ScanAct

SpecScan == InitScan /\ [][NextScan]_vars

\* The token s is "--" and more, or "-" and one character
IsFlagLike(s) == (Len(s) > 2 /\ HasPrefix(s, <<"-", "-">>)) \/ (Len(s) = 2 /\ s[1] = "-")

\* The set fs declares the flag the token s spells, by its long name for
\* "--x" and by its shorthand for "-x", as taking no value
TakesNoValue(s, fs) ==
    \E i \in DOMAIN fs.formal :
        /\ FlagTable[fs.formal[i]].NoOptDefVal # <<>>
        /\ IF HasPrefix(s, <<"-", "-">>) THEN FlagTable[fs.formal[i]].Name = SubSeq(s, 3, Len(s))
           ELSE FlagTable[fs.formal[i]].Shorthand = SubSeq(s, 2, 2)

\* The token s takes the token after it as its value
Consumes(s, fs) == IsFlagLike(s) /\ ~Contains(s, "=") /\ ~TakesNoValue(s, fs)

\* The bare tokens of args by the rule of the claim, under the flag set fs
RECURSIVE BareTokens(_, _)
BareTokens(args, fs) ==
    IF Len(args) = 0 THEN <<>>
    ELSE IF Consumes(Head(args), fs)
    THEN IF Len(args) < 2 THEN <<>> ELSE BareTokens(Tail(Tail(args)), fs)
    ELSE IF IsBare(Head(args)) THEN <<Head(args)>> \o BareTokens(Tail(args), fs)
    ELSE BareTokens(Tail(args), fs)

\* C31: in flag stripping a token "--x" or "-x" without "=" takes the next
\* token as its value unless the Full set of the node declares that flag (by
\* long name, by shorthand) as taking no value; a flag that takes no value and
\* a token with "=" leave the next token to be classified on its own.
C31_FlagTakesNextToken ==
    last.op = "stripFlags" =>
        /\ last.status = "ok"
        /\ last.ret = BareTokens(last.args, flags[last.recv].Full)

\* The number of bare tokens among the first k of args
BareUpTo(args, k) == Cardinality({j \in 1..k : IsBare(args[j])})

\* C32: in flag stripping a lone "-" and an empty token are no flags: they
\* take no value, and the scan goes on with the token after them; in every
\* scan that returns, a bare token right after a scanned "-" or "" is in the
\* result, after the bare tokens before it.
C32_LoneDashIsNoFlag ==
    (last.op = "stripFlags" /\ last.status = "ok") =>
        \A k \in 1..(Len(last.args) - 1) :
           ( /\ last.args[k] \in {<<"-">>, <<>>}
             /\ \A j \in 1..k : ~IsFlagLike(last.args[j])
             /\ IsBare(last.args[k + 1]) ) =>
              /\ Len(last.ret) >= BareUpTo(last.args, k + 1)
              /\ last.ret[BareUpTo(last.args, k + 1)] = last.args[k + 1]
              /\ last.args[k] \notin Range(last.ret)

\* ["x", "-", "x"] scanned
C32_Witness ==
    /\ last.op = "stripFlags" /\ last.status = "ok"
    /\ last.args = << <<"x">>, <<"-">>, <<"x">> >>
    /\ last.ret = << <<"x">>, <<"x">> >>

\* ------------------------------------------------------------ flag errors
\* The ControlFlagErrorFn functions a command may declare: none, the one that
\* rewrites, the one that suppresses
ErrorFns == {Nil, 1, 2}

\* The tree of InitExec; every command declares every hook, no Version and
\* the flag "key" on Flags(), and any of the flag-error functions
InitFlagError ==
    /\ Use = [c \in Cmds |-> CliUses[((c - 1) % Len(CliUses)) + 1]]
    /\ Aliases = [c \in Cmds |-> <<>>]
    /\ Args = [c \in Cmds |-> IF c % Len(CliUses) = 0 THEN 1 ELSE Nil]
    /\ lifecycle = [c \in Cmds |-> Range(Hooks)]
    /\ Version = [c \in Cmds |-> <<>>]
    /\ DisableFlagParsing = [c \in Cmds |-> FALSE]
    /\ flagErrorFn \in [Cmds -> ErrorFns]
    /\ EnableCommandSorting = TRUE
    /\ SuggestionsMinimumDistance = [c \in Cmds |-> 0]
    /\ Built(Prepare(BuildChain(FreshHeap, 1), [c \in Cmds |-> <<"Flags", 5>>], 1))

SpecFlagError == InitFlagError /\ [][NextExec]_vars

\* The commands from c to the root that declare a flag-error function
ErrorFnDeclarers(c) == {n \in {c} \cup Ancestors(c) : flagErrorFn[n] # Nil}

\* The function of the one nearest to c: the others are its ancestors
NearestErrorFn(c) ==
    IF ErrorFnDeclarers(c) = {} THEN Nil
    ELSE flagErrorFn[CHOOSE n \in ErrorFnDeclarers(c) :
                        \A k \in ErrorFnDeclarers(c) \ {n} : k \in Ancestors(n)]

\* The last execute failed to parse its flags
FlagParseFailed == LastIs("execute") /\ "FlagErrorFn" \in Steps

\* C33: when the flag parsing of execute fails, the error goes to the
\* flag-error function of the nearest command, from the executed one to the
\* root, that declares one (to the identity if none does); execute returns
\* what the function returns, nil included, and no validation step and no
\* hook runs.
C33_FlagErrorThroughNearestFn ==
    FlagParseFailed =>
        /\ Parse(flags[last.recv].Full, last.args).err # "nil"
        /\ last.ret.err = ApplyFlagErrorFn(NearestErrorFn(last.recv), last.recv,
                                           Parse(flags[last.recv].Full, last.args).err)
        /\ Steps = {"FlagErrorFn"}
        /\ Len(last.ret.trace) = 1

\* "stop" has no function, "serve" the one that suppresses: execute returns nil
C33_Witness ==
    /\ FlagParseFailed
    /\ flagErrorFn[last.recv] = Nil /\ NearestErrorFn(last.recv) = 2
    /\ last.ret.err = "nil"

\* ------------------------------------------------------------ validation and hooks
\* The validator of the executed command rejects the flag-stripped arguments
Rejected ==
    /\ Args[last.recv] # Nil
    /\ Validator(Args[last.recv], last.recv, Positional(last.recv, last.args)) # "nil"

\* The last execute returned the verdict of the validator, no hook invoked
ReturnedVerdict ==
    /\ last.ret.err = Validator(Args[last.recv], last.recv, Positional(last.recv, last.args))
    /\ Fired = <<>>

\* The last execute, of a runnable command, got to the positional validation:
\* the flags parsed (or are not parsed at all), the help flag is not set and
\* no version was rendered
ReachedValidation ==
    /\ LastIs("execute") /\ IsRunnable(lifecycle[last.recv])
    /\ Steps \cap {"FlagErrorFn", "tpl"} = {}
    /\ ~IsSet(last.recv, <<"h", "e", "l", "p">>)

\* C34 as stated: in an execute of a runnable command, when the declared
\* validator rejects the flag-stripped arguments execute returns that error
\* and invokes no hook; a command without validator accepts any arguments.
C34_ValidationBeforeHooks ==
    (LastIs("execute") /\ IsRunnable(lifecycle[last.recv])) =>
        /\ Rejected => ReturnedVerdict
        /\ Args[last.recv] = Nil => "Args" \notin Steps

\* C34 amended: the same of an execute that gets to the positional
\* validation (flags parsed without error, help flag not set, no version
\* rendered); a command without validator then goes on to the steps after.
C34_ValidationWhenReached ==
    ReachedValidation =>
        /\ Rejected => ReturnedVerdict
        /\ Args[last.recv] = Nil => ("Args" \notin Steps /\ Len(last.ret.trace) > 0)
        /\ \A i, j \in DOMAIN last.ret.trace :
              (last.ret.trace[i].step = "Args" /\ IsHookEvent(last.ret.trace[j])) => i < j

\* "stop extra" with every hook declared: the validator's error, no hook
C34_Witness ==
    /\ ReachedValidation /\ Rejected /\ ReturnedVerdict
    /\ lifecycle[last.recv] = Range(Hooks)
    /\ Len(last.args) > 0

\* ------------------------------------------------------------ the place of the required check
\* The declared global-pre hook (of the nearest declarer) and pre hook of the
\* executed command, as invocations with the positional arguments
PreHooksOf(c, args) ==
    SelectSeq(DeclaredFrom(c, args, 1), LAMBDA e : e.step \in {"GlobalPreRun", "PreRun"})

\* No run, post or global-post hook was invoked; when the aggregate error was
\* returned, the declared pre hooks, and only they, had been invoked
StoppedBeforeRun ==
    /\ \A i \in DOMAIN Fired : Fired[i].step \in {"GlobalPreRun", "PreRun"}
    /\ last.ret.err = "required flag(s) not set" =>
          Fired = PreHooksOf(last.recv, Positional(last.recv, last.args))

\* C35 as stated: in an execute where a required flag is unset the run, post
\* and global-post hooks are never invoked, and the nearest global-pre hook
\* and the own pre hook, when declared, were invoked before the aggregate
\* error is returned.
C35_RequiredStopsBeforeRun ==
    (LastIs("execute") /\ RequiredUnset(last.recv) # {}) => StoppedBeforeRun

\* C35 amended: the same of an execute of a command that parses its flags
\* (DisableFlagParsing not set).
C35_RequiredStopsParsedRun ==
    (LastIs("execute") /\ RequiredUnset(last.recv) # {} /\ ~DisableFlagParsing[last.recv])
        => StoppedBeforeRun

\* every hook declared, "key" and "port" unset: global-pre and pre invoked,
\* then the aggregate error
C35_Witness ==
    /\ LastIs("execute") /\ RequiredUnset(last.recv) # {} /\ ~DisableFlagParsing[last.recv]
    /\ lifecycle[last.recv] = Range(Hooks)
    /\ last.ret.err = "required flag(s) not set"
    /\ Len(Fired) = 2

\* ------------------------------------------------------------ DisableFlagParsing
\* C36: an execute of a command with DisableFlagParsing parses no flag and
\* skips the required-flag check, and the validator and every hook it invokes
\* receive the complete argument vector, flag-like tokens included, in the
\* original order.
C36_UnparsedVectorHandedOn ==
    (LastIs("execute") /\ DisableFlagParsing[last.recv]) =>
        /\ "FlagErrorFn" \notin Steps
        /\ flags[last.recv].Full.alloc =>
              (flags[last.recv].Full.actual = <<>> /\ flags[last.recv].Full.args = <<>>)
        /\ last.ret.err # "required flag(s) not set"
        /\ \A i \in DOMAIN last.ret.trace :
              /\ last.ret.trace[i].step = "validateRequiredFlags" =>
                    last.ret.trace[i].err = "nil"
              /\ (last.ret.trace[i].step = "Args" \/ IsHookEvent(last.ret.trace[i])) =>
                    last.ret.trace[i].args = last.args

\* ["--key", "-h"] on the root that declares "key" as required and every
\* hook: all five hooks invoked with the whole vector
C36_Witness ==
    /\ LastIs("execute") /\ DisableFlagParsing[last.recv]
    /\ last.args = << <<"-", "-", "k", "e", "y">>, <<"-", "h">> >>
    /\ RequiredUnset(last.recv) # {}
    /\ Len(Fired) = Len(Hooks)
    /\ \A i \in DOMAIN Fired : Fired[i].args = last.args

\* ------------------------------------------------------- Find, call by call
\* The tree after root.Add(serve); serve.Add(stop); ...; serve.Remove(stop);
\* stop.Add(serve): serve is in the children list of stop and stop still in
\* the list of serve (Remove leaves it there), a cycle of children lists
CycleHeap ==
    The({ AddLoop(r.h, 3, <<2>>, 1).h : r \in {Remove(BuildChain(FreshHeap, 1), 2, <<3>>)} })

DescentTokens ==
    { <<"s">>, <<"s", "t", "o", "p">>, <<"-", "-", "p", "o", "r", "t">>,
      <<"e", "x", "t", "r", "a">> }

DescentVectors == UNION {[1..n -> DescentTokens] : n \in 0..MaxTokens}

\* One call of the closure innerFind, up to its return or its recursive call:
\* cmd is the child the next call is made on, Nil when this call returns
innerFindCall(h, c, innerArgs) ==
    The({
        IF st.status # "ok"
        THEN [h |-> st.h, status |-> st.status, cmd |-> Nil, a |-> innerArgs]
        ELSE IF Len(st.commands) = 0
        THEN [h |-> st.h, status |-> "ok", cmd |-> Nil, a |-> innerArgs]
        ELSE The({
            IF n.cmd # Nil
            THEN [h |-> n.h, status |-> "ok", cmd |-> n.cmd,
                  a |-> argsMinusFirstX(innerArgs, st.commands[1])]
            ELSE [h |-> n.h, status |-> "ok", cmd |-> Nil, a |-> innerArgs] :
            n \in {findNext(st.h, c, st.commands[1])} }) :
        st \in {stripFlags(h, innerArgs, c)} })

\* What Find does once innerFind has returned found and a
FindReturn(h, found, a) ==
    IF Args[found] = Nil
    THEN UNION {
        IF st.status # "ok" THEN {[h |-> st.h, status |-> st.status, err |-> "nil"]}
        ELSE {[h |-> st.h, status |-> "ok", err |-> e] : e \in legacyArgs(found, st.commands)} :
        st \in {stripFlags(h, a, found)} }
    ELSE {[h |-> h, status |-> "ok", err |-> "nil"]}

\* Find is called on a command without parent: the first call of innerFind
\* is about to run
FindCallAct ==
    /\ last.op = "new"
    /\ \E c \in {x \in Cmds : parent[x] = Nil}, args \in DescentVectors :
          last' = Call("innerFind", c, args, "ok", [root |-> c, depth |-> 0], args)
    /\ Count
    /\ UNCHANGED <<parent, commands, isSortedCmds, maxLength, flags, calledAs, ctx,
                   CommandLine>>
    /\ UNCHANGED Settings

\* The pending call of innerFind runs and calls itself on the matched child
innerFindAct ==
    /\ last.op = "innerFind"
    /\ \E r \in {innerFindCall(Heap, last.recv, last.args)} :
          /\ r.status = "ok" /\ r.cmd # Nil
          /\ Store(r.h)
          /\ last' = Call("innerFind", r.cmd, r.a, "ok",
                          [root |-> last.ret.root, depth |-> last.ret.depth + 1], last.pre)
    /\ Count
    /\ UNCHANGED Settings

\* The pending call of innerFind runs and returns (or panics), and Find ends
FindReturnAct ==
    /\ last.op = "innerFind"
    /\ \E r \in {innerFindCall(Heap, last.recv, last.args)} :
          /\ r.status # "ok" \/ r.cmd = Nil
          /\ IF r.status # "ok"
             THEN /\ Store(r.h)
                  /\ last' = Call("Find", last.ret.root, last.pre, r.status, <<>>, <<>>)
             ELSE \E f \in FindReturn(r.h, last.recv, r.a) :
                     /\ Store(f.h)
                     /\ last' = Call("Find", last.ret.root, last.pre, f.status,
                                     [found |-> last.recv, a |-> r.a, err |-> f.err,
                                      depth |-> last.ret.depth], <<>>)
    /\ Count
    /\ UNCHANGED Settings

\* The chain root > serve > stop or the tree with the cycle; every command
\* with the same preparation of its flag sets
InitDescent ==
    /\ Use = [c \in Cmds |-> CliUses[((c - 1) % Len(CliUses)) + 1]]
    /\ Aliases = [c \in Cmds |-> IF c = 2 THEN <<<<"s">>>> ELSE <<>>]
    /\ Args = [c \in Cmds |-> IF c = 1 THEN 1 ELSE Nil]
    /\ NoLifecycle
    /\ \E p \in Preps, h \in {BuildChain(FreshHeap, 1), CycleHeap} :
          Built(Prepare(h, [c \in Cmds |-> p], 1))

NextDescent == FindCallAct \/ innerFindAct \/ FindReturnAct

\* A call that is pending runs: the Go runtime keeps executing the goroutine
SpecDescent ==
    InitDescent /\ [][NextDescent]_vars /\ WF_vars(innerFindAct) /\ WF_vars(FindReturnAct)

\* C37: Find ends for every root and vector, and the depth of its recursion
\* is at most the length of the vector: every descent removes exactly one
\* token, whatever the shape of the tree, cycles of links included.
C37_FindTerminates ==
    /\ [](last.op = "innerFind" =>
             /\ last.ret.depth <= Len(last.pre)
             /\ Len(last.args) = Len(last.pre) - last.ret.depth)
    /\ [](last.status # "fatal")
    /\ (last.op = "innerFind") ~> (last.op = "Find")

\* ["s", "stop", "s", "stop"] on the tree with the cycle: four descents,
\* through serve, stop, serve and stop again
C37_Witness ==
    /\ LastIs("Find")
    /\ 2 \in Range(commands[3]) /\ 3 \in Range(commands[2])
    /\ Len(last.args) = MaxTokens
    /\ last.ret.depth = Len(last.args)
    /\ last.ret.a = <<>>

\* ------------------------------------------------------------ Find's frame
\* a is v with some elements left out, the others in their order
RECURSIVE IsSubsequence(_, _)
IsSubsequence(a, v) ==
    IF a = <<>> THEN TRUE
    ELSE IF v = <<>> THEN FALSE
    ELSE IF Head(a) = Head(v) THEN IsSubsequence(Tail(a), Tail(v))
    ELSE IsSubsequence(a, Tail(v))

\* The number of parent links between c and the command without parent
Depth(c) == Len(ParentChain(Heap, c, NumCmds))

\* C38: the node Find returns is its receiver or reached from it by a chain
\* of direct children; the vector it returns is a subsequence of the vector
\* it was given, in the same order, shorter by the depth of the node
\* returned; and Find changes no parent link and no children list.
C38_FindFrame ==
    [][last'.op = "Find" =>
          /\ parent' = parent
          /\ commands' = commands
          /\ last'.status = "ok" =>
                LET L == last'.ret.levels IN
                /\ L[1].c = last'.recv
                /\ L[Len(L)].c = last'.ret.found
                /\ \A i \in 1..(Len(L) - 1) : L[i + 1].c \in Range(commands[L[i].c])
                /\ IsSubsequence(last'.ret.a, last'.args)
                /\ Len(last'.ret.a) = Len(last'.args) - (Len(L) - 1)
                /\ Len(L) - 1 = Len(ParentChain(Heap, last'.ret.found, NumCmds))
                                   - Len(ParentChain(Heap, last'.recv, NumCmds))]_vars

\* stop found from root on a vector with a flag and its value: two tokens
\* removed, the others returned in place
C38_Witness ==
    /\ LastIs("Find")
    /\ Depth(last.ret.found) = 2
    /\ Len(last.args) = MaxTokens
    /\ \E i \in 1..Len(last.ret.a) : HasPrefix(last.ret.a[i], <<"-">>)
    /\ \E k \in 2..Len(last.args) :
          /\ last.args[k] = <<"s", "t", "o", "p">>
          /\ last.ret.a = Without(Without(last.args, k), 1)

\* ------------------------------------------------- the occurrence removed
\* The index in v, from k on, of the first token the scan of stripFlags
\* classifies as bare under the flag set fs; 0 when there is none
RECURSIVE FirstBareFrom(_, _, _)
FirstBareFrom(v, fs, k) ==
    IF k > Len(v) THEN 0
    ELSE IF Consumes(v[k], fs) THEN FirstBareFrom(v, fs, k + 2)
    ELSE IF IsBare(v[k]) THEN k
    ELSE FirstBareFrom(v, fs, k + 1)

\* The index of the first element of v equal to t
FirstEqual(v, t) == CHOOSE k \in 1..Len(v) : v[k] = t /\ \A j \in 1..(k - 1) : v[j] # t

\* C39: when a Find that returns descended into the child matched by the
\* bare token t, the vector passed down is the level's vector without the
\* occurrence of t that flag stripping classified as bare, so that a token
\* taken as the value of a flag stays behind its flag.
C39_BareOccurrenceRemoved ==
    LastIs("Find") =>
        LET L == last.ret.levels IN
        \A i \in 1..(Len(L) - 1) :
           L[i + 1].innerArgs =
              Without(L[i].innerArgs, FirstBareFrom(L[i].innerArgs, flags[L[i].c].Full, 1))

\* C39, amended: the element removed is the first one equal to t by value.
\* It is the occurrence classified as bare when no equal token stands before
\* that occurrence; otherwise it is an earlier token, which the scan took as
\* the value of the flag before it, and that flag is left without it.
C39_FirstEqualRemoved ==
    LastIs("Find") =>
        LET L == last.ret.levels IN
        \A i \in 1..(Len(L) - 1) :
           LET v == L[i].innerArgs
               fs == flags[L[i].c].Full
               b == FirstBareFrom(v, fs, 1)
               k == FirstEqual(v, v[b])
           IN /\ b > 0
              /\ v[b] = L[i].argsWOflags[1]
              /\ L[i + 1].innerArgs = Without(v, k)
              /\ k # b => (k > 1 /\ k < b /\ Consumes(v[k - 1], fs))

\* ["--port", "s", "--all", "s"] on a root that declares "all" as taking no
\* value: the "s" after "--port" is removed, the bare one stays
C39_Witness ==
    /\ LastIs("Find")
    /\ last.args = << <<"-", "-", "p", "o", "r", "t">>, <<"s">>,
                      <<"-", "-", "a", "l", "l">>, <<"s">> >>
    /\ last.ret.found = 2
    /\ last.ret.a = << <<"-", "-", "p", "o", "r", "t">>, <<"-", "-", "a", "l", "l">>, <<"s">> >>

\* ------------------------------------------------------------ ResetCommands
\* Cmd.ResetCommands: the parent and the children list of c itself are
\* cleared, and its ParentsGlobal set (ClearParentsGlobal); the help default
\* it clears as well is no part of the tree
ResetCommands(h, c) ==
    [h EXCEPT !.parent[c] = Nil,
              !.commands[c] = <<>>,
              !.flags[c].ParentsGlobal = NilFlagSet]

ResetCommandsAct ==
    /\ Alive
    /\ \E c \in Cmds :
          /\ Store(ResetCommands(Heap, c))
          /\ last' = Call("ResetCommands", c, <<>>, "ok", <<>>, commands[c])
    /\ Count
    /\ UNCHANGED Settings

NextReset == AddAct \/ RemoveAct \/ ResetCommandsAct

\* The tree under Add, Remove and ResetCommands
SpecReset == InitTree /\ [][NextReset]_vars

\* C40: after any sequence of Add, Remove and ResetCommands that returned, a
\* command m has the parent n exactly when m is in the children list of n;
\* after n.ResetCommands() no command has n as its parent and n is in no
\* children list.
C40_LinksConsistent ==
    last.status = "ok" =>
        /\ \A n2 \in Cmds, m2 \in Cmds : parent[m2] = n2 <=> m2 \in Range(commands[n2])
        /\ last.op = "ResetCommands" =>
              \A m2 \in Cmds : parent[m2] # last.recv /\ last.recv \notin Range(commands[m2])

====
